---- MODULE Spec2Model ----
(***************************************************************************)
(* Repository analysis pipeline of GitShieldAnalyzer:                      *)
(*   - the analysis cache (server/services/fileHashService.ts):            *)
(*     hasBeenAnalyzed / recordAnalysis over the analyzed_files and        *)
(*     file_rule_analyses tables;                                          *)
(*   - the orchestrator (the repoAnalyzer service, scan-tracking           *)
(*     variant): analyzeRepository / analyzeFiles /                        *)
(*     broadcastAndUpdateProgress over the scan_status and                 *)
(*     analysis_results tables.                                            *)
(* Scans run one after another; every await of analyzeRepository is one    *)
(* step.  Paths are sequences of segments.  A file's content is            *)
(* represented by its SHA-1 digest (calculateFileHash is injective on the  *)
(* contents the model draws).  Errors are drawn for every store write of   *)
(* analyzeRepository itself, for unzip, for the root listing and for       *)
(* readFile, and the classifier may throw; a write that throws has not     *)
(* been applied.                                                           *)
(*   - Spec is the pipeline over uploads of one owner;                     *)
(*   - SpecEnv is the same pipeline where, in addition, the store calls    *)
(*     inside analyzeFiles and the listing of a subdirectory can fail,     *)
(*     the listing can name a file before a directory, and two owners      *)
(*     have a repository of the same name;                                 *)
(*   - SpecAdapter is the classifier adapter                               *)
(*     (server/services/llmService.ts): one call of analyzeCode on every   *)
(*     content, rule category and completion outcome drawn.                *)
(***************************************************************************)
EXTENDS Integers, Sequences, FiniteSets, TLC

VARIABLES
    tree,              \* the snapshot's entries, in readdir/traversal order
    rules,             \* the rule set handed to analyzeRepository
    source,            \* what sourcePath names: an uploaded "zip" or a "dir"
    analyzedFiles,     \* table analyzed_files, row id = index
    fileRuleAnalyses,  \* table file_rule_analyses, in insertion order
    scanStatus,        \* table scan_status, row id = index
    analysisResults,   \* table analysis_results
    pc,                \* position of the running analyzeRepository call
    call,              \* locals of the running analyzeRepository call
    fsys,              \* do the uploaded archive / the extracted dir exist
    outcome,           \* how the last call settled
    log,               \* what the running call did per (file, rule)
    recordCalls,       \* every recordAnalysis call that has returned: its
                       \* arguments, the file read, the scan, the row added
    faults,            \* can the store fail inside analyzeFiles, and can a
                       \* subdirectory be unreadable
    owners,            \* the GitHub owners whose repositories are scanned
    progressEvents,    \* the updates the running call has broadcast
    errorCalls,        \* the analyzeCode calls that threw, in the running
                       \* scan and in the scan before it
    probe,             \* one call of a pure function: inputs and result
    workers,           \* the locals of calls that run concurrently
    uploads            \* the upload directory shared by concurrent calls

vars == <<tree, rules, source, analyzedFiles, fileRuleAnalyses, scanStatus,
          analysisResults, pc, call, fsys, outcome, log, recordCalls,
          faults, owners, progressEvents, errorCalls, probe, workers,
          uploads>>

----------------------------------------------------------------------------
(* Bounds and input sets *)

MaxScans == 2

Hashes == {"A", "B"}

RepoNames == {"repo"}

NULL == "null"

(* Snapshot entries: dir is the directory holding the entry (relative to   *)
(* the snapshot root), name its base name, ext the suffix of name, and     *)
(* versions the contents (digests) the file can have in an upload.         *)
Entry(d, n, e, v) == [dir |-> d, name |-> n, ext |-> e, versions |-> v]

TreeEmpty  == << Entry(<<>>, "README.md", ".md", {"A"}) >>
TreeSingle == << Entry(<<"src">>, "app.js", ".js", Hashes),
                 Entry(<<>>, "README.md", ".md", {"A"}) >>
TreeTwins  == << Entry(<<"a">>, "x.js", ".js", {"A"}),
                 Entry(<<"b">>, "x.js", ".js", Hashes) >>
TreeGitOnly == << Entry(<<".git", "hooks">>, "hook.py", ".py", {"A"}) >>
TreeMixed  == << Entry(<<>>, "main.js", ".js", {"A"}),
                 Entry(<<"src">>, "app.js", ".js", {"A"}) >>

(* The owners a GitHub scan can name in its metadata. *)
Owners == {"alice", "bob"}

(* A repository scanned: snapshot, rule set, kind of source path, whether  *)
(* the store and the subdirectories can fail during the traversal, and     *)
(* the owners whose repository of that name is scanned.                    *)
Scenario(t, r, s, f, o) ==
    [tree |-> t, rules |-> r, source |-> s, faults |-> f, owners |-> o]

Scenarios == { Scenario(TreeEmpty,   <<1>>,    "zip", FALSE, {"alice"}),
               Scenario(TreeSingle,  <<1, 2>>, "zip", FALSE, {"alice"}),
               Scenario(TreeSingle,  <<1, 2>>, "dir", FALSE, {"alice"}),
               Scenario(TreeTwins,   <<1>>,    "zip", FALSE, {"alice"}),
               Scenario(TreeGitOnly, <<1>>,    "zip", FALSE, {"alice"}) }

(* The same pipeline in a harsher environment: store and subdirectory      *)
(* failures inside the traversal, a listing that interleaves files and     *)
(* directories, and two owners with a repository of the same name.         *)
EnvScenarios == { Scenario(TreeSingle, <<1>>, "dir", TRUE,  {"alice"}),
                  Scenario(TreeMixed,  <<1>>, "dir", FALSE, {"alice"}),
                  Scenario(TreeSingle, <<1>>, "dir", FALSE, Owners) }

RuleSeverity(r) == IF r = 1 THEN "medium" ELSE "high"

----------------------------------------------------------------------------
(* Pure helpers *)

Extensions == {".js", ".jsx", ".ts", ".tsx", ".py", ".rb", ".php", ".java",
               ".go", ".cs", ".cpp", ".c"}

shouldAnalyzeFile(entry) == entry.ext \in Extensions

(* directories neither countAnalyzableFiles nor analyzeFiles descends into *)
ExcludedDirs == {"node_modules", ".git"}

Pruned(entry) == \E k \in DOMAIN entry.dir : entry.dir[k] \in ExcludedDirs

(* the files both walks reach and accept *)
Eligible(entry) == ~Pruned(entry) /\ shouldAnalyzeFile(entry)

(* path.join(dir, entry.name) *)
FullPath(entry) == Append(entry.dir, entry.name)

RECURSIVE CommonPrefixLen(_, _)
CommonPrefixLen(a, b) ==
    IF a = <<>> \/ b = <<>> \/ Head(a) # Head(b) THEN 0
    ELSE 1 + CommonPrefixLen(Tail(a), Tail(b))

(* path.relative(from, to): one ".." per segment of from below the common  *)
(* prefix, then the rest of to.                                             *)
PathRelative(from, to) ==
    LET k == CommonPrefixLen(from, to)
    IN  [i \in 1..(Len(from) - k) |-> ".."] \o SubSeq(to, k + 1, Len(to))

(* relativePath as analyzeFiles computes it: relative to the directory     *)
(* being listed by the current recursion level.                            *)
RelativePath(entry) == PathRelative(entry.dir, FullPath(entry))

(* Math.round((current / total) * 100), total > 0 *)
ProgressPercent(current, total) == (200 * current + total) \div (2 * total)

(* countAnalyzableFiles *)
countAnalyzableFiles(t) ==
    Cardinality({i \in DOMAIN t : Eligible(t[i])})

(* Variant of NextEligible that skips no entry: every file is handled. *)
NextEntry(t, i) == i

(* index of the first eligible entry at or after i, Len(t)+1 if none *)
NextEligible(t, i) ==
    LET S == {j \in i..Len(t) : Eligible(t[j])}
    IN  IF S = {} THEN Len(t) + 1 ELSE CHOOSE j \in S : \A k \in S : j <= k

(* does the snapshot hold a subdirectory that the walks descend into *)
HasSubdirectory(t) == \E i \in DOMAIN t : t[i].dir # <<>> /\ ~Pruned(t[i])

(* entry i is the first entry of a subdirectory: the recursion lists that  *)
(* directory before it reaches the entry                                   *)
EntersDirectory(t, i) ==
    /\ t[i].dir # <<>>
    /\ (i = 1 \/ t[i - 1].dir # t[i].dir)

(* Variant of OverallSeverity that asks for medium before high. *)
OverallSeverityMediumFirst(fs) ==
    IF \E i \in DOMAIN fs : fs[i].severity = "medium" THEN "medium"
    ELSE IF \E i \in DOMAIN fs : fs[i].severity = "high" THEN "high"
    ELSE "low"

(* overall severity of a findings list *)
OverallSeverity(fs) ==
    IF \E i \in DOMAIN fs : fs[i].severity = "high" THEN "high"
    ELSE IF \E i \in DOMAIN fs : fs[i].severity = "medium" THEN "medium"
    ELSE "low"

----------------------------------------------------------------------------
(* The analysis cache *)

(* Variant of hasBeenAnalyzed that reads every matching rule row instead   *)
(* of the first and returns their findings together.                       *)
hasBeenAnalyzedAllRows(filePath, fileHash, repositoryName, ruleId) ==
    LET files == {i \in DOMAIN analyzedFiles :
                     /\ analyzedFiles[i].filePath = filePath
                     /\ analyzedFiles[i].fileHash = fileHash
                     /\ analyzedFiles[i].repositoryName = repositoryName}
    IN  IF files = {} THEN { [analyzed |-> FALSE, findings |-> <<>>] }
        ELSE { LET all[n \in 0..Len(fileRuleAnalyses)] ==
                       IF n = 0 THEN <<>>
                       ELSE IF /\ fileRuleAnalyses[n].fileId = f
                               /\ fileRuleAnalyses[n].ruleId = ruleId
                            THEN all[n - 1] \o fileRuleAnalyses[n].findings
                            ELSE all[n - 1]
                   rows == {j \in DOMAIN fileRuleAnalyses :
                               /\ fileRuleAnalyses[j].fileId = f
                               /\ fileRuleAnalyses[j].ruleId = ruleId}
               IN  [analyzed |-> rows # {},
                    findings |-> all[Len(fileRuleAnalyses)]]
             : f \in files }

(* hasBeenAnalyzed: the set of results the two findFirst queries can give. *)
(* Neither query has an ORDER BY, so any matching row may be the first.    *)
hasBeenAnalyzed(filePath, fileHash, repositoryName, ruleId) ==
    LET files == {i \in DOMAIN analyzedFiles :
                     /\ analyzedFiles[i].filePath = filePath
                     /\ analyzedFiles[i].fileHash = fileHash
                     /\ analyzedFiles[i].repositoryName = repositoryName}
    IN  IF files = {} THEN { [analyzed |-> FALSE, findings |-> <<>>] }
        ELSE UNION { LET rows == {j \in DOMAIN fileRuleAnalyses :
                                     /\ fileRuleAnalyses[j].fileId = f
                                     /\ fileRuleAnalyses[j].ruleId = ruleId}
                     IN  IF rows = {}
                         THEN { [analyzed |-> FALSE, findings |-> <<>>] }
                         ELSE { [analyzed |-> TRUE,
                                 findings |-> fileRuleAnalyses[j].findings]
                                : j \in rows }
                   : f \in files }

(* Variant of recordAnalysis that overwrites the rule row of the file and  *)
(* rule where one exists instead of adding a row.                          *)
recordAnalysisUpsert(filePath, fileHash, repositoryName, ruleId, findings) ==
    LET found == {i \in DOMAIN analyzedFiles :
                     /\ analyzedFiles[i].filePath = filePath
                     /\ analyzedFiles[i].repositoryName = repositoryName}
        fileId == IF found = {} THEN Len(analyzedFiles) + 1
                  ELSE CHOOSE i \in found : \A k \in found : i <= k
        files2 == IF found = {}
                  THEN Append(analyzedFiles,
                              [filePath |-> filePath, fileHash |-> fileHash,
                               repositoryName |-> repositoryName])
                  ELSE [analyzedFiles EXCEPT ![fileId].fileHash = fileHash]
        rows == {j \in DOMAIN fileRuleAnalyses :
                    /\ fileRuleAnalyses[j].fileId = fileId
                    /\ fileRuleAnalyses[j].ruleId = ruleId}
    IN  [analyzedFiles |-> files2,
         fileRuleAnalyses |->
             IF rows = {}
             THEN Append(fileRuleAnalyses,
                         [fileId |-> fileId, ruleId |-> ruleId,
                          findings |-> findings])
             ELSE [j \in DOMAIN fileRuleAnalyses |->
                      IF j \in rows
                      THEN [fileRuleAnalyses[j] EXCEPT !.findings = findings]
                      ELSE fileRuleAnalyses[j]]]

(* recordAnalysis: the two tables after the call *)
recordAnalysis(filePath, fileHash, repositoryName, ruleId, findings) ==
    LET found == {i \in DOMAIN analyzedFiles :
                     /\ analyzedFiles[i].filePath = filePath
                     /\ analyzedFiles[i].repositoryName = repositoryName}
        fileId == IF found = {} THEN Len(analyzedFiles) + 1
                  ELSE CHOOSE i \in found : \A k \in found : i <= k
        files2 == IF found = {}
                  THEN Append(analyzedFiles,
                              [filePath |-> filePath, fileHash |-> fileHash,
                               repositoryName |-> repositoryName])
                  ELSE [analyzedFiles EXCEPT ![fileId].fileHash = fileHash]
    IN  [analyzedFiles |-> files2,
         fileRuleAnalyses |->
             Append(fileRuleAnalyses,
                    [fileId |-> fileId, ruleId |-> ruleId,
                     findings |-> findings])]

----------------------------------------------------------------------------
(* Writes to scan_status and analysis_results *)

(* A new scan_status row; totalFiles -1 stands for SQL NULL. *)
NewScan(repositoryName) ==
    [repositoryName |-> repositoryName, status |-> "in_progress",
     progress |-> 0, currentFile |-> NULL, totalFiles |-> -1,
     completedAt |-> NULL, error |-> NULL]

(* Variant of UpdateProgress whose update has lost its where clause. *)
UpdateProgressAllRows(table, scanId, current, total, file) ==
    [i \in DOMAIN table |->
        [table[i] EXCEPT !.progress = ProgressPercent(current, total),
                         !.currentFile = IF file = NULL THEN @ ELSE file,
                         !.totalFiles = total]]

(* broadcastAndUpdateProgress: update ... where id = scanId.  A file of     *)
(* NULL (undefined) leaves the currentFile column as it is.                 *)
UpdateProgress(table, scanId, current, total, file) ==
    [table EXCEPT ![scanId] =
        [@ EXCEPT !.progress = ProgressPercent(current, total),
                  !.currentFile = IF file = NULL THEN @ ELSE file,
                  !.totalFiles = total]]

(* Variant of MarkCompleted that does not force progress to 100. *)
MarkCompletedKeepsProgress(table, scanId) ==
    [table EXCEPT ![scanId] =
        [@ EXCEPT !.status = "completed", !.completedAt = "now"]]

(* update ... set status = 'completed' where id = scan.id *)
MarkCompleted(table, scanId) ==
    [table EXCEPT ![scanId] =
        [@ EXCEPT !.status = "completed", !.progress = 100,
                  !.completedAt = "now"]]

(* Variant whose failure update leaves completedAt out. *)
MarkFailedKeepsOpen(table, scanId, message) ==
    [table EXCEPT ![scanId] =
        [@ EXCEPT !.status = "failed", !.error = message]]

(* update ... set status = 'failed' where id = scan.id *)
MarkFailed(table, scanId, message) ==
    [table EXCEPT ![scanId] =
        [@ EXCEPT !.status = "failed", !.error = message,
                  !.completedAt = "now"]]

Finding(rule, location, content) ==
    [ruleId |-> rule, severity |-> RuleSeverity(rule),
     location |-> location, fileContent |-> content]

----------------------------------------------------------------------------
(* analyzeRepository, one action per await *)

NoCall == [repositoryName |-> NULL, owner |-> NULL, scanId |-> 0,
           needsCleanup |-> FALSE, content |-> <<>>, totalFiles |-> 0,
           processed |-> 0, fileIdx |-> 0, ruleIdx |-> 0,
           findings |-> <<>>, error |-> NULL, raised |-> NULL]

(* the state every specification starts from, the scenario aside *)
Idle ==
    /\ analyzedFiles = <<>>
    /\ fileRuleAnalyses = <<>>
    /\ scanStatus = <<>>
    /\ analysisResults = <<>>
    /\ pc = "idle"
    /\ call = NoCall
    /\ fsys = [archive |-> FALSE, extracted |-> FALSE]
    /\ outcome = "none"
    /\ log = {}
    /\ recordCalls = {}
    /\ progressEvents = <<>>
    /\ errorCalls = {}

(* no call runs beside the sequential pipeline *)
Alone ==
    /\ workers = <<>>
    /\ uploads = NULL

Init ==
    /\ \E sc \in Scenarios :
          /\ tree = sc.tree /\ rules = sc.rules /\ source = sc.source
          /\ faults = sc.faults /\ owners = sc.owners
    /\ Idle
    /\ Alone
    /\ probe = NULL

InitEnv ==
    /\ \E sc \in EnvScenarios :
          /\ tree = sc.tree /\ rules = sc.rules /\ source = sc.source
          /\ faults = sc.faults /\ owners = sc.owners
    /\ Idle
    /\ Alone
    /\ probe = NULL

Throw(message) ==
    /\ pc' = "catch"
    /\ call' = [call EXCEPT !.error = message]

(* the outcomes of a store call inside analyzeFiles *)
StoreOutcomes == IF faults THEN BOOLEAN ELSE {TRUE}

(* Entry of analyzeRepository: repositoryName = metadata.repoName, then    *)
(* the insert into scan_status, which is outside the try block.  The       *)
(* owner named by the metadata is kept only to tell the logical            *)
(* repositories apart.                                                     *)
Invoke ==
    /\ pc = "idle"
    /\ Len(scanStatus) < MaxScans
    /\ \E name \in RepoNames, owner \in owners,
          content \in [DOMAIN tree -> Hashes], dbOk \in BOOLEAN :
          /\ \A i \in DOMAIN tree : content[i] \in tree[i].versions
          /\ fsys' = [archive |-> (source = "zip"), extracted |-> FALSE]
          /\ log' = {}
          /\ IF dbOk
             THEN /\ scanStatus' = Append(scanStatus, NewScan(name))
                  /\ call' = [NoCall EXCEPT !.repositoryName = name,
                                            !.owner = owner,
                                            !.scanId = Len(scanStatus) + 1,
                                            !.content = content]
                  /\ pc' = "extract"
                  /\ outcome' = "running"
             ELSE /\ scanStatus' = scanStatus
                  /\ call' = NoCall
                  /\ pc' = "idle"
                  /\ outcome' = "raised"
    /\ errorCalls' = {c \in errorCalls : c.scan = Len(scanStatus)}
    /\ UNCHANGED <<tree, rules, source, faults, owners, probe, workers, uploads,
                   analyzedFiles, fileRuleAnalyses, analysisResults,
                   recordCalls, progressEvents>>

(* if (sourcePath.endsWith('.zip')) { mkdir; unzip } *)
Extract ==
    /\ pc = "extract"
    /\ IF source = "zip"
       THEN \E ok \in BOOLEAN :
               /\ fsys' = [fsys EXCEPT !.extracted = TRUE]
               /\ call' = [call EXCEPT !.needsCleanup = TRUE,
                              !.error = IF ok THEN @ ELSE "unzip failed"]
               /\ pc' = IF ok THEN "count" ELSE "catch"
       ELSE /\ pc' = "count"
            /\ UNCHANGED <<call, fsys>>
    /\ UNCHANGED <<tree, rules, source, faults, owners, probe, workers, uploads,
                   analyzedFiles, fileRuleAnalyses, scanStatus,
                   analysisResults, outcome, log, recordCalls,
                   progressEvents, errorCalls>>

(* countAnalyzableFiles(extractPath) and the zero check.  A readdir that   *)
(* throws, at the root or in the recursion, leaves countAnalyzableFiles.   *)
Count ==
    /\ pc = "count"
    /\ \E listing \in {"ok", "root unreadable"} \cup
                      (IF faults /\ HasSubdirectory(tree)
                       THEN {"subdirectory unreadable"} ELSE {}) :
          IF listing # "ok" THEN Throw(listing)
          ELSE IF countAnalyzableFiles(tree) = 0
          THEN Throw("No analyzable files found in the repository")
          ELSE /\ call' = [call EXCEPT
                              !.totalFiles = countAnalyzableFiles(tree)]
               /\ pc' = "progress0"
    /\ UNCHANGED <<tree, rules, source, faults, owners, probe, workers, uploads,
                   analyzedFiles, fileRuleAnalyses, scanStatus,
                   analysisResults, fsys, outcome, log, recordCalls,
                   progressEvents, errorCalls>>

(* a ProgressUpdate handed to broadcastProgress *)
ProgressUpdate(current, total, file) ==
    [current |-> current, total |-> total, file |-> file]

(* the initial broadcastAndUpdateProgress(scan.id, {current: 0, total}) *)
InitialProgress ==
    /\ pc = "progress0"
    /\ \E dbOk \in BOOLEAN :
          IF dbOk
          THEN /\ scanStatus' = UpdateProgress(scanStatus, call.scanId, 0,
                                               call.totalFiles, NULL)
               /\ progressEvents' =
                      Append(progressEvents,
                             ProgressUpdate(0, call.totalFiles, NULL))
               /\ pc' = "tree"
               /\ call' = call
          ELSE /\ Throw("db error: update progress")
               /\ UNCHANGED <<scanStatus, progressEvents>>
    /\ UNCHANGED <<tree, rules, source, faults, owners, probe, workers, uploads,
                   analyzedFiles, fileRuleAnalyses, analysisResults, fsys,
                   outcome, log, recordCalls, errorCalls>>

(* buildDirectoryTree(extractPath): only a failure at the root is raised *)
BuildTree ==
    /\ pc = "tree"
    /\ \E ok \in BOOLEAN :
          IF ok
          THEN /\ call' = [call EXCEPT !.fileIdx = NextEligible(tree, 1)]
               /\ pc' = "file"
          ELSE Throw("root unreadable")
    /\ UNCHANGED <<tree, rules, source, faults, owners, probe, workers, uploads,
                   analyzedFiles, fileRuleAnalyses, scanStatus,
                   analysisResults, fsys, outcome, log, recordCalls,
                   progressEvents, errorCalls>>

----------------------------------------------------------------------------
(* analyzeFiles: one step per file read and one per (file, rule) pair *)

(* the loop moves on to the next entry of the traversal *)
NextFile(c) ==
    LET j == NextEligible(tree, c.fileIdx + 1)
    IN  [call |-> [c EXCEPT !.fileIdx = j, !.ruleIdx = 0],
         pc   |-> IF j > Len(tree) THEN "report" ELSE "file"]

(* Variant of NextRule whose loop does not move on from the rule it has    *)
(* just evaluated.                                                         *)
NextRuleStays(c) == [call |-> c, pc |-> "rule"]

(* the rule loop moves on to the next rule, or leaves the file *)
NextRule(c) ==
    IF c.ruleIdx < Len(rules)
    THEN [call |-> [c EXCEPT !.ruleIdx = @ + 1], pc |-> "rule"]
    ELSE NextFile(c)

Event(entry, hash, rule, kind, findings) ==
    [file |-> FullPath(entry), filePath |-> RelativePath(entry),
     hash |-> hash, rule |-> rule, kind |-> kind, findings |-> findings]

(* Variant of AnalyzeFile that starts the rule loop without the progress  *)
(* update.                                                                 *)
AnalyzeFileUnannounced ==
    /\ pc = "file"
    /\ call' = [call EXCEPT !.processed = @ + 1, !.ruleIdx = 1]
    /\ pc' = "rule"
    /\ UNCHANGED <<tree, rules, source, faults, owners, probe, workers, uploads,
                   analyzedFiles, fileRuleAnalyses, scanStatus,
                   analysisResults, fsys, outcome, log, recordCalls,
                   progressEvents, errorCalls>>

(* The listing of the directory the entry is in (on entering it), then     *)
(* readFile, processedFiles.count++, broadcastAndUpdateProgress.  The      *)
(* readdir is outside the file's try/catch: its error leaves analyzeFiles. *)
(* An error of readFile or of the progress update is caught by the file's  *)
(* try/catch and the file is skipped; the counter is incremented between   *)
(* the two.                                                                *)
AnalyzeFile ==
    /\ pc = "file"
    /\ LET entry == tree[call.fileIdx]
           hash  == call.content[call.fileIdx]
       IN  \E io \in {"read", "file unreadable"} \cup
                     (IF faults /\ EntersDirectory(tree, call.fileIdx)
                      THEN {"subdirectory unreadable"} ELSE {}),
              dbOk \in StoreOutcomes :
              IF io = "subdirectory unreadable"
              THEN /\ Throw(io)
                   /\ UNCHANGED <<scanStatus, progressEvents, log>>
              ELSE IF io = "file unreadable"
              THEN /\ call' = NextFile(call).call
                   /\ pc' = NextFile(call).pc
                   /\ UNCHANGED <<scanStatus, progressEvents, log>>
              ELSE IF dbOk
              THEN /\ scanStatus' =
                        UpdateProgress(scanStatus, call.scanId,
                                       call.processed + 1, call.totalFiles,
                                       entry.name)
                   /\ progressEvents' =
                        Append(progressEvents,
                               ProgressUpdate(call.processed + 1,
                                              call.totalFiles, entry.name))
                   /\ call' = [call EXCEPT !.processed = @ + 1,
                                           !.ruleIdx = 1]
                   /\ pc' = "rule"
                   /\ log' = log
              ELSE LET nxt == NextFile([call EXCEPT !.processed = @ + 1])
                   IN  /\ call' = nxt.call
                       /\ pc' = nxt.pc
                       /\ log' = log \cup
                              {Event(entry, hash, 0, "progressError", <<>>)}
                       /\ UNCHANGED <<scanStatus, progressEvents>>
    /\ UNCHANGED <<tree, rules, source, faults, owners, probe, workers, uploads,
                   analyzedFiles, fileRuleAnalyses, analysisResults, fsys,
                   outcome, recordCalls, errorCalls>>

(* One iteration of the rule loop: hasBeenAnalyzed, then on a miss         *)
(* analyzeCode and recordAnalysis.  analyzeCode returns null ("none"),     *)
(* an analysis ("vuln") or throws ("error"); a throw of analyzeCode, of    *)
(* hasBeenAnalyzed or of recordAnalysis leaves the rule loop through the   *)
(* file's catch.  The finding is pushed before recordAnalysis is called,   *)
(* and recordAnalysis can fail before its first write or between the       *)
(* write of the file row and the insert of the rule row.                   *)
EvaluateRule ==
    /\ pc = "rule"
    /\ LET entry   == tree[call.fileIdx]
           rule    == rules[call.ruleIdx]
           content == call.content[call.fileIdx]
           relPath == RelativePath(entry)
       IN  \E lookupOk \in StoreOutcomes :
           IF ~lookupOk
           THEN LET nxt == NextFile(call)
                IN  /\ call' = nxt.call
                    /\ pc' = nxt.pc
                    /\ log' = log \cup
                           {Event(entry, content, rule, "lookupError", <<>>)}
                    /\ UNCHANGED <<analyzedFiles, fileRuleAnalyses,
                                   recordCalls, errorCalls>>
           ELSE
           \E res \in hasBeenAnalyzed(relPath, content,
                                      call.repositoryName, rule) :
              IF res.analyzed
              THEN LET nxt == NextRule([call EXCEPT
                                  !.findings = @ \o res.findings])
                   IN  /\ call' = nxt.call
                       /\ pc' = nxt.pc
                       /\ log' = log \cup
                              {Event(entry, content, rule, "hit", res.findings)}
                       /\ UNCHANGED <<analyzedFiles, fileRuleAnalyses,
                                      recordCalls, errorCalls>>
              ELSE \E out \in {"none", "vuln", "error"} :
                      IF out = "error"
                      THEN LET nxt == NextFile(call)
                           IN  /\ call' = nxt.call
                               /\ pc' = nxt.pc
                               /\ log' = log \cup
                                      {Event(entry, content, rule, "error", <<>>)}
                               /\ errorCalls' = errorCalls \cup
                                      {[file |-> FullPath(entry),
                                        hash |-> content, rule |-> rule,
                                        owner |-> call.owner,
                                        scan |-> call.scanId]}
                               /\ UNCHANGED <<analyzedFiles, fileRuleAnalyses,
                                              recordCalls>>
                      ELSE LET found == IF out = "vuln"
                                        THEN <<Finding(rule, relPath, content)>>
                                        ELSE <<>>
                               db  == recordAnalysis(relPath, content,
                                          call.repositoryName, rule, found)
                               pushed == [call EXCEPT !.findings = @ \o found]
                           IN  \E stored \in {"both"} \cup
                                     (IF faults THEN {"nothing", "file row"}
                                      ELSE {}) :
                               IF stored = "both"
                               THEN /\ call' = NextRule(pushed).call
                                    /\ pc' = NextRule(pushed).pc
                                    /\ analyzedFiles' = db.analyzedFiles
                                    /\ fileRuleAnalyses' = db.fileRuleAnalyses
                                    /\ log' = log \cup
                                         {Event(entry, content, rule,
                                                "classified", found)}
                                    /\ recordCalls' = recordCalls \cup
                                         {[file |-> FullPath(entry),
                                           filePath |-> relPath,
                                           hash |-> content,
                                           repositoryName |-> call.repositoryName,
                                           owner |-> call.owner,
                                           rule |-> rule, findings |-> found,
                                           scan |-> call.scanId,
                                           seq |-> Len(fileRuleAnalyses) + 1]}
                                    /\ errorCalls' = errorCalls
                               ELSE /\ call' = NextFile(pushed).call
                                    /\ pc' = NextFile(pushed).pc
                                    /\ analyzedFiles' =
                                         IF stored = "file row"
                                         THEN db.analyzedFiles
                                         ELSE analyzedFiles
                                    /\ log' = log \cup
                                         {Event(entry, content, rule,
                                                "recordError", found)}
                                    /\ UNCHANGED <<fileRuleAnalyses,
                                                   recordCalls, errorCalls>>
    /\ UNCHANGED <<tree, rules, source, faults, owners, probe, workers, uploads,
                   scanStatus,
                   analysisResults, fsys, outcome, progressEvents>>

----------------------------------------------------------------------------
(* analyzeRepository after the traversal *)

(* overall severity and insert into analysis_results *)
PersistReport ==
    /\ pc = "report"
    /\ \E dbOk \in BOOLEAN :
          IF dbOk
          THEN /\ analysisResults' = Append(analysisResults,
                      [scanId |-> call.scanId,
                       repositoryName |-> call.repositoryName,
                       findings |-> call.findings,
                       severity |-> OverallSeverity(call.findings)])
               /\ pc' = "complete"
               /\ call' = call
          ELSE /\ Throw("db error: insert results")
               /\ analysisResults' = analysisResults
    /\ UNCHANGED <<tree, rules, source, faults, owners, probe, workers, uploads,
                   analyzedFiles, fileRuleAnalyses, scanStatus, fsys,
                   outcome, log, recordCalls, progressEvents, errorCalls>>

(* update scan_status to completed, then return *)
Complete ==
    /\ pc = "complete"
    /\ \E dbOk \in BOOLEAN :
          IF dbOk
          THEN /\ scanStatus' = MarkCompleted(scanStatus, call.scanId)
               /\ pc' = "finally"
               /\ call' = call
               /\ outcome' = "returned"
          ELSE /\ Throw("db error: update completed")
               /\ UNCHANGED <<scanStatus, outcome>>
    /\ UNCHANGED <<tree, rules, source, faults, owners, probe, workers, uploads,
                   analyzedFiles, fileRuleAnalyses, analysisResults, fsys,
                   log, recordCalls, progressEvents, errorCalls>>

(* catch: update scan_status to failed, then rethrow.  When the update     *)
(* itself fails, its error is the one that leaves the function.            *)
Catch ==
    /\ pc = "catch"
    /\ \E dbOk \in BOOLEAN :
          IF dbOk
          THEN /\ scanStatus' = MarkFailed(scanStatus, call.scanId, call.error)
               /\ outcome' = "raised"
               /\ call' = [call EXCEPT !.raised = call.error]
          ELSE /\ scanStatus' = scanStatus
               /\ outcome' = "raised"
               /\ call' = [call EXCEPT !.raised = "db error: update failed"]
    /\ pc' = "finally"
    /\ UNCHANGED <<tree, rules, source, faults, owners, probe, workers, uploads,
                   analyzedFiles, fileRuleAnalyses, analysisResults, fsys,
                   log, recordCalls, progressEvents, errorCalls>>

(* finally: if (needsCleanup) { rm extractPath; unlink sourcePath }; the   *)
(* call has then settled and its locals are gone.                          *)
Finally ==
    /\ pc = "finally"
    /\ fsys' = IF call.needsCleanup
               THEN [archive |-> FALSE, extracted |-> FALSE]
               ELSE fsys
    /\ pc' = "idle"
    /\ call' = NoCall
    /\ log' = {}
    /\ progressEvents' = <<>>
    /\ UNCHANGED <<tree, rules, source, faults, owners, probe, workers, uploads,
                   analyzedFiles, fileRuleAnalyses, scanStatus,
                   analysisResults, outcome, recordCalls, errorCalls>>

Next ==
    \/ Invoke
    \/ Extract
    \/ Count
    \/ InitialProgress
    \/ BuildTree
    \/ AnalyzeFile
    \/ EvaluateRule
    \/ PersistReport
    \/ Complete
    \/ Catch
    \/ Finally

Spec == Init /\ [][Next]_vars

(* the pipeline in the harsher environment *)
SpecEnv == InitEnv /\ [][Next]_vars

----------------------------------------------------------------------------
(* buildDirectoryTree: the order of the files in the tree it returns *)

(* The names of the snapshots in the order of String.localeCompare.        *)
(* "u00e9.js" stands for the name e-acute.js written with the one code     *)
(* point U+00E9, "eu0301.js" for the same name written as e followed by    *)
(* the combining accent U+0301: two different file names.                  *)
NameOrder == << ".git", "a", "app.js", "b", "u00e9.js", "hook.py", "hooks",
                "main.js", "README.md", "src", "x.js" >>

(* Canonically equivalent strings: localeCompare compares strings by their *)
(* canonical form and returns 0 for two that are equivalent.               *)
CanonicalForm(name) == IF name = "eu0301.js" THEN "u00e9.js" ELSE name

localeCompare(a, b) ==
    LET ia == CHOOSE i \in DOMAIN NameOrder : NameOrder[i] = CanonicalForm(a)
        ib == CHOOSE i \in DOMAIN NameOrder : NameOrder[i] = CanonicalForm(b)
    IN  IF ia < ib THEN -1 ELSE IF ia > ib THEN 1 ELSE 0

(* Does the file with full path p come before the file with full path q    *)
(* in a depth-first walk of the tree?  Below their last common directory   *)
(* the two paths continue with two children of that directory, which the   *)
(* sort puts directories first and then by name.                           *)
TreeBefore(p, q) ==
    LET k    == CommonPrefixLen(p, q)
        pDir == Len(p) > k + 1
        qDir == Len(q) > k + 1
    IN  /\ p # q
        /\ IF pDir = qDir THEN localeCompare(p[k + 1], q[k + 1]) < 0
           ELSE pDir

(* position of entry i among the files buildDirectoryTree keeps that are   *)
(* eligible, in depth-first order                                          *)
TreeRank(t, i) ==
    1 + Cardinality({j \in DOMAIN t :
                        /\ Eligible(t[j])
                        /\ TreeBefore(FullPath(t[j]), FullPath(t[i]))})

(* position of entry i among the eligible files in the order analyzeFiles  *)
(* reaches them                                                            *)
TraversalRank(t, i) ==
    1 + Cardinality({j \in 1..(i - 1) : Eligible(t[j])})

----------------------------------------------------------------------------
(* The classifier adapter (server/services/llmService.ts), one call of     *)
(* analyzeCode at a time.  A file's content is its number of lines, the    *)
(* rule categories whose patterns it matches and whether it is blank; a    *)
(* snippet is the sequence of the numbers of the lines it holds.  A JSON   *)
(* number that is missing (and the NaN computed from it) is the empty      *)
(* sequence, a number n is <<n>>.                                          *)

MaxLines == 6

WindowSize == 5

UNDEFINED == "undefined"

Categories == {"CORS", "Custom"}

(* the categories containsRelevantPatterns has a pattern list for *)
PatternCategories == {"CORS", "MFA", "CSRF Tokens", "Password Policy",
                      "Session Management", "XSS Protection",
                      "SQL Injection", "Hardcoded Credentials",
                      "TLS Version"}

(* blank: the content holds no character other than line breaks *)
Contents ==
    {c \in [lines : 1..MaxLines, matches : SUBSET {"CORS"}, blank : BOOLEAN] :
        c.blank => c.matches = {}}

(* what openai.chat.completions.create gives: it throws, or it resolves    *)
(* with no message content, with content JSON.parse rejects, or with a     *)
(* JSON object                                                             *)
Responses ==
    { [kind |-> k] : k \in {"transport error", "empty", "invalid JSON"} }
    \cup
    [kind : {"json"},
     vulnerable : {"true", "false", UNDEFINED},
     description : {"text", UNDEFINED},
     recommendation : {"text", UNDEFINED},
     lineNumber : {<<>>} \cup {<<n>> : n \in -1..(MaxLines + 1)}]

Max(a, b) == IF a >= b THEN a ELSE b

Min(a, b) == IF a <= b THEN a ELSE b

(* Variant of extractRelevantLines whose window starts at the reported     *)
(* line instead of two lines before it.                                    *)
extractRelevantLinesFromStart(content, startLine) ==
    IF startLine = <<>>
    THEN [snippet |-> <<>>, lineNumber |-> <<>>]
    ELSE LET start == Max(0, startLine[1])
             end   == Min(content.lines, start + WindowSize)
         IN  [snippet |-> [i \in 1..(end - start) |-> start + i],
              lineNumber |-> <<startLine[1] + 1>>]

(* extractRelevantLines(content, startLine); with startLine NaN both       *)
(* bounds of the slice are NaN and the slice is empty                      *)
extractRelevantLines(content, startLine) ==
    IF startLine = <<>>
    THEN [snippet |-> <<>>, lineNumber |-> <<>>]
    ELSE LET start == Max(0, startLine[1] - (WindowSize \div 2))
             end   == Min(content.lines, start + WindowSize)
         IN  [snippet |-> [i \in 1..(end - start) |-> start + i],
              lineNumber |-> <<startLine[1] + 1>>]

(* containsRelevantPatterns(code, rule): without a pattern list for the    *)
(* category the pattern is /./, which every content with a character       *)
(* other than a line break matches                                         *)
containsRelevantPatterns(content, category) ==
    IF category \in PatternCategories
    THEN category \in content.matches
    ELSE ~content.blank

(* analyzeCode(content, rule), given what the completion request gives *)
analyzeCode(content, category, response) ==
    IF ~containsRelevantPatterns(content, category)
    THEN [kind |-> "null"]
    ELSE IF response.kind = "transport error" THEN [kind |-> "throw"]
    ELSE IF response.kind = "empty" THEN [kind |-> "null"]
    ELSE IF response.kind = "invalid JSON" THEN [kind |-> "throw"]
    ELSE IF response.vulnerable # "true" THEN [kind |-> "null"]
    ELSE LET startLine == IF response.lineNumber = <<>> THEN <<>>
                          ELSE <<response.lineNumber[1] - 1>>
             window == extractRelevantLines(content, startLine)
         IN  [kind |-> "analysis",
              description |-> response.description,
              recommendation |-> response.recommendation,
              lineNumber |-> window.lineNumber,
              codeSnippet |-> window.snippet]

InitAdapter ==
    /\ tree = TreeEmpty /\ rules = <<1>> /\ source = "dir"
    /\ faults = FALSE /\ owners = {"alice"}
    /\ Idle
    /\ Alone
    /\ probe \in [content : Contents, category : Categories,
                  response : Responses, result : {[kind |-> "pending"]}]

AnalyzeCodeCall ==
    /\ probe.result.kind = "pending"
    /\ probe' = [probe EXCEPT !.result =
                     analyzeCode(probe.content, probe.category,
                                 probe.response)]
    /\ UNCHANGED <<tree, rules, source, faults, owners, analyzedFiles,
                   fileRuleAnalyses, scanStatus, analysisResults, pc, call,
                   fsys, outcome, log, recordCalls, progressEvents,
                   errorCalls, workers, uploads>>

NextAdapter == AnalyzeCodeCall

SpecAdapter == InitAdapter /\ [][NextAdapter]_vars

----------------------------------------------------------------------------
(* recordAnalysis called by scans that run concurrently (two requests      *)
(* served by the same process): one step per await of recordAnalysis, the  *)
(* steps of the calls interleave.                                          *)

MaxCalls == 3

Callers == {1, 2}

(* the arguments the callers pass *)
RecordArgs ==
    [filePath : {<<"app.js">>}, fileHash : Hashes,
     repositoryName : RepoNames, ruleId : {1}, findings : {<<>>}]

NoArgs == [filePath |-> <<>>, fileHash |-> NULL, repositoryName |-> NULL,
           ruleId |-> 0, findings |-> <<>>]

InitRace ==
    /\ tree = TreeSingle /\ rules = <<1>> /\ source = "dir"
    /\ faults = FALSE /\ owners = {"alice"}
    /\ Idle
    /\ probe = NULL
    /\ uploads = NULL
    /\ workers = [w \in Callers |->
                     [pc |-> "idle", args |-> NoArgs, file |-> 0, calls |-> 0]]

(* what recordAnalysis neither reads nor writes *)
notTheCache == <<tree, rules, source, faults, owners, probe, uploads,
                 scanStatus, analysisResults, pc, call, fsys, outcome, log,
                 recordCalls, progressEvents, errorCalls>>

(* the calls started so far *)
CallsMade == workers[1].calls + workers[2].calls

(* a caller enters recordAnalysis *)
RecordBegin(w) ==
    /\ workers[w].pc = "idle"
    /\ CallsMade < MaxCalls
    /\ \E args \in RecordArgs :
          workers' = [workers EXCEPT ![w] =
                         [pc |-> "find", args |-> args, file |-> 0,
                          calls |-> @.calls + 1]]
    /\ UNCHANGED <<analyzedFiles, fileRuleAnalyses, notTheCache>>

(* let file = await db.query.analyzedFiles.findFirst(filePath, repository) *)
RecordFind(w) ==
    /\ workers[w].pc = "find"
    /\ LET a     == workers[w].args
           found == {i \in DOMAIN analyzedFiles :
                        /\ analyzedFiles[i].filePath = a.filePath
                        /\ analyzedFiles[i].repositoryName = a.repositoryName}
       IN  \E f \in (IF found = {} THEN {0} ELSE found) :
              workers' = [workers EXCEPT ![w].pc = "file", ![w].file = f]
    /\ UNCHANGED <<analyzedFiles, fileRuleAnalyses, notTheCache>>

(* if (!file) insert into analyzed_files, else update hash and timestamp *)
RecordFile(w) ==
    /\ workers[w].pc = "file"
    /\ LET a == workers[w].args
       IN  IF workers[w].file = 0
           THEN /\ analyzedFiles' =
                      Append(analyzedFiles,
                             [filePath |-> a.filePath,
                              fileHash |-> a.fileHash,
                              repositoryName |-> a.repositoryName])
                /\ workers' = [workers EXCEPT
                                  ![w].pc = "rule",
                                  ![w].file = Len(analyzedFiles) + 1]
           ELSE /\ analyzedFiles' =
                      [analyzedFiles EXCEPT
                          ![workers[w].file].fileHash = a.fileHash]
                /\ workers' = [workers EXCEPT ![w].pc = "rule"]
    /\ UNCHANGED <<fileRuleAnalyses, notTheCache>>

(* insert into file_rule_analyses (fileId, ruleId, findings) *)
RecordRule(w) ==
    /\ workers[w].pc = "rule"
    /\ fileRuleAnalyses' =
           Append(fileRuleAnalyses,
                  [fileId |-> workers[w].file,
                   ruleId |-> workers[w].args.ruleId,
                   findings |-> workers[w].args.findings])
    /\ workers' = [workers EXCEPT ![w].pc = "idle"]
    /\ UNCHANGED <<analyzedFiles, notTheCache>>

NextRace ==
    \E w \in Callers :
        \/ RecordBegin(w)
        \/ RecordFind(w)
        \/ RecordFile(w)
        \/ RecordRule(w)

SpecRace == InitRace /\ [][NextRace]_vars

----------------------------------------------------------------------------
(* Two analyzeRepository calls that run concurrently, as far as they write *)
(* scan_status and broadcast: one step per awaited write.  The rule loop   *)
(* between two progress updates touches neither scan_status nor the        *)
(* sockets and is left out.  broadcastProgress sends every update to every *)
(* open client of the one WebSocket server, so progressEvents is here the  *)
(* sequence of messages each connected subscriber receives.                *)

MaxFiles == 2

Scanners == {1, 2}

InitProgress ==
    /\ tree = TreeSingle /\ rules = <<1>> /\ source = "dir"
    /\ faults = FALSE /\ owners = {"alice"}
    /\ Idle
    /\ probe = NULL
    /\ uploads = NULL
    /\ workers = [w \in Scanners |->
                     [pc |-> "idle", scanId |-> 0, total |-> 0,
                      processed |-> 0]]

(* what the progress writes neither read nor write *)
notTheProgress == <<tree, rules, source, faults, owners, probe, uploads,
                    analyzedFiles, fileRuleAnalyses, analysisResults, pc,
                    call, fsys, outcome, log, recordCalls, errorCalls>>

(* insert into scan_status ... returning *)
ScanInsert(w) ==
    /\ workers[w].pc = "idle"
    /\ \E name \in RepoNames :
          scanStatus' = Append(scanStatus, NewScan(name))
    /\ workers' = [workers EXCEPT ![w].pc = "count",
                                  ![w].scanId = Len(scanStatus) + 1]
    /\ UNCHANGED <<progressEvents, notTheProgress>>

(* const totalFiles = await countAnalyzableFiles(extractPath), not zero *)
ScanCount(w) ==
    /\ workers[w].pc = "count"
    /\ \E n \in 1..MaxFiles :
          workers' = [workers EXCEPT ![w].pc = "progress0", ![w].total = n]
    /\ UNCHANGED <<scanStatus, progressEvents, notTheProgress>>

(* broadcastAndUpdateProgress(scan.id, {current: 0, total}) *)
ScanInitialProgress(w) ==
    /\ workers[w].pc = "progress0"
    /\ scanStatus' = UpdateProgress(scanStatus, workers[w].scanId, 0,
                                    workers[w].total, NULL)
    /\ progressEvents' = Append(progressEvents,
                                ProgressUpdate(0, workers[w].total, NULL))
    /\ workers' = [workers EXCEPT ![w].pc = "file"]
    /\ UNCHANGED notTheProgress

(* processedFiles.count++; broadcastAndUpdateProgress(scanId, {current,    *)
(* total, file})                                                           *)
ScanFileProgress(w) ==
    /\ workers[w].pc = "file"
    /\ workers[w].processed < workers[w].total
    /\ scanStatus' = UpdateProgress(scanStatus, workers[w].scanId,
                                    workers[w].processed + 1,
                                    workers[w].total, "app.js")
    /\ progressEvents' = Append(progressEvents,
                                ProgressUpdate(workers[w].processed + 1,
                                               workers[w].total, "app.js"))
    /\ workers' = [workers EXCEPT ![w].processed = @ + 1]
    /\ UNCHANGED notTheProgress

(* update scan_status set status = 'completed' where id = scan.id *)
ScanComplete(w) ==
    /\ workers[w].pc = "file"
    /\ workers[w].processed = workers[w].total
    /\ scanStatus' = MarkCompleted(scanStatus, workers[w].scanId)
    /\ workers' = [workers EXCEPT ![w].pc = "done"]
    /\ UNCHANGED <<progressEvents, notTheProgress>>

NextProgress ==
    \E w \in Scanners :
        \/ ScanInsert(w)
        \/ ScanCount(w)
        \/ ScanInitialProgress(w)
        \/ ScanFileProgress(w)
        \/ ScanComplete(w)

SpecProgress == InitProgress /\ [][NextProgress]_vars

----------------------------------------------------------------------------
(* Overlapping calls of analyzeRepository(zipPath, rules) of               *)
(* server/services/repoAnalyzer.ts for archives uploaded into one          *)
(* directory.  extractPath is path.join(path.dirname(zipPath),             *)
(* 'extracted'): the same directory for every archive of that upload       *)
(* directory.  uploads is the upload directory: the archives present,      *)
(* whether 'extracted' exists, and the archives whose files it holds.      *)
(* Archive w is the one uploaded for caller w.                             *)

Uploaders == {1, 2}

InitSnapshot ==
    /\ tree = TreeSingle /\ rules = <<1>> /\ source = "zip"
    /\ faults = FALSE /\ owners = {"alice"}
    /\ Idle
    /\ probe = NULL
    /\ uploads = [zips |-> {}, exists |-> FALSE, extracted |-> {}]
    /\ workers = [w \in Uploaders |-> [pc |-> "idle", read |-> {}]]

notTheSnapshot == <<tree, rules, source, faults, owners, probe,
                    analyzedFiles, fileRuleAnalyses, scanStatus,
                    analysisResults, pc, call, fsys, outcome, log,
                    recordCalls, progressEvents, errorCalls>>

(* fs.rm(extractPath, {recursive, force}) and fs.unlink(zipPath) *)
Cleanup(w) ==
    [zips |-> uploads.zips \ {w}, exists |-> FALSE, extracted |-> {}]

(* the upload handler stores the archive and calls analyzeRepository *)
SnapStart(w) ==
    /\ workers[w].pc = "idle"
    /\ uploads' = [uploads EXCEPT !.zips = @ \cup {w}]
    /\ workers' = [workers EXCEPT ![w].pc = "mkdir"]
    /\ UNCHANGED notTheSnapshot

(* fs.mkdir(extractPath, {recursive: true}) *)
SnapMkdir(w) ==
    /\ workers[w].pc = "mkdir"
    /\ uploads' = [uploads EXCEPT !.exists = TRUE]
    /\ workers' = [workers EXCEPT ![w].pc = "unzip"]
    /\ UNCHANGED notTheSnapshot

(* unzip -o zipPath -d extractPath: adds the archive's files to whatever   *)
(* the directory holds, creating it if it is gone; a bad archive fails     *)
SnapUnzip(w) ==
    /\ workers[w].pc = "unzip"
    /\ \E ok \in BOOLEAN :
          IF ok
          THEN /\ uploads' = [uploads EXCEPT !.exists = TRUE,
                                             !.extracted = @ \cup {w}]
               /\ workers' = [workers EXCEPT ![w].pc = "tree"]
          ELSE /\ UNCHANGED uploads
               /\ workers' = [workers EXCEPT ![w].pc = "catch"]
    /\ UNCHANGED notTheSnapshot

(* buildDirectoryTree(extractPath) and the empty check *)
SnapBuildTree(w) ==
    /\ workers[w].pc = "tree"
    /\ workers' = [workers EXCEPT
                      ![w].pc = IF uploads.exists /\ uploads.extracted # {}
                                THEN "analyze" ELSE "catch",
                      ![w].read = @ \cup uploads.extracted]
    /\ UNCHANGED <<uploads, notTheSnapshot>>

(* analyzeFiles(extractPath, rules, findings): reads what the directory    *)
(* holds now; a missing directory is caught inside analyzeFiles            *)
SnapAnalyze(w) ==
    /\ workers[w].pc = "analyze"
    /\ workers' = [workers EXCEPT ![w].pc = "finally",
                                  ![w].read = @ \cup uploads.extracted]
    /\ UNCHANGED <<uploads, notTheSnapshot>>

(* catch: cleanup, then rethrow *)
SnapCatch(w) ==
    /\ workers[w].pc = "catch"
    /\ uploads' = Cleanup(w)
    /\ workers' = [workers EXCEPT ![w].pc = "finally"]
    /\ UNCHANGED notTheSnapshot

(* finally: cleanup *)
SnapFinally(w) ==
    /\ workers[w].pc = "finally"
    /\ uploads' = Cleanup(w)
    /\ workers' = [workers EXCEPT ![w].pc = "done"]
    /\ UNCHANGED notTheSnapshot

NextSnapshot ==
    \E w \in Uploaders :
        \/ SnapStart(w)
        \/ SnapMkdir(w)
        \/ SnapUnzip(w)
        \/ SnapBuildTree(w)
        \/ SnapAnalyze(w)
        \/ SnapCatch(w)
        \/ SnapFinally(w)

SpecSnapshot == InitSnapshot /\ [][NextSnapshot]_vars

----------------------------------------------------------------------------
(* The pipeline with its scheduling: every await of analyzeRepository      *)
(* settles (with a value or an error) and the event loop then runs the     *)
(* continuation, so a step that stays possible is eventually taken.        *)
SpecFair == Init /\ [][Next]_vars /\ WF_vars(Next)

----------------------------------------------------------------------------
(* The cache on its own: recordAnalysis called again and again by one      *)
(* caller, each call run to its end, with a lookup for the recorded key    *)
(* after every call.  probe keeps the arguments of the last call, whether  *)
(* it repeated the call before it, whether it refreshed the hash of an     *)
(* existing file row, and what the lookup can return after this call and   *)
(* could return after the call before.                                     *)

CacheArgs ==
    UNION { { [filePath |-> p, fileHash |-> h, repositoryName |-> n,
               ruleId |-> r, findings |-> f]
              : f \in { <<>>, <<Finding(r, p, h)>> } }
            : p \in { <<"app.js">>, <<"main.js">> }, h \in Hashes,
              n \in RepoNames, r \in {1, 2} }

InitCache ==
    /\ tree = TreeEmpty /\ rules = <<1, 2>> /\ source = "dir"
    /\ faults = FALSE /\ owners = {"alice"}
    /\ Idle
    /\ Alone
    /\ probe = [calls |-> 0, last |-> NoArgs, repeated |-> FALSE,
                updated |-> FALSE, lookup |-> {}, before |-> {}]

CacheRecord ==
    /\ probe.calls < MaxCalls
    /\ \E a \in CacheArgs :
          LET after == recordAnalysis(a.filePath, a.fileHash,
                                      a.repositoryName, a.ruleId, a.findings)
          IN  /\ analyzedFiles' = after.analyzedFiles
              /\ fileRuleAnalyses' = after.fileRuleAnalyses
              /\ probe' =
                    [calls |-> probe.calls + 1,
                     last |-> a,
                     repeated |-> (a = probe.last),
                     updated |->
                         \E i \in DOMAIN analyzedFiles :
                             /\ analyzedFiles[i].filePath = a.filePath
                             /\ analyzedFiles[i].repositoryName
                                    = a.repositoryName
                             /\ analyzedFiles[i].fileHash # a.fileHash,
                     lookup |-> hasBeenAnalyzed(a.filePath, a.fileHash,
                                                a.repositoryName, a.ruleId)',
                     before |-> IF a = probe.last THEN probe.lookup ELSE {}]
    /\ UNCHANGED <<tree, rules, source, faults, owners, workers, uploads,
                   scanStatus, analysisResults, pc, call, fsys, outcome,
                   log, recordCalls, progressEvents, errorCalls>>

NextCache == CacheRecord

SpecCache == InitCache /\ [][NextCache]_vars

----------------------------------------------------------------------------
(* The overall severity on its own: one evaluation for every findings list *)
(* of up to MaxFindings findings.  A finding is given by its severity and  *)
(* by where the traversal took it from: the classifier's answer or the     *)
(* findings stored in the cache.                                           *)

MaxFindings == 3

Severities == {"low", "medium", "high"}

FindingLists ==
    UNION { [1..n -> [severity : Severities,
                      origin : {"classifier", "cache"}]]
            : n \in 0..MaxFindings }

InitSeverity ==
    /\ tree = TreeEmpty /\ rules = <<1>> /\ source = "dir"
    /\ faults = FALSE /\ owners = {"alice"}
    /\ Idle
    /\ Alone
    /\ probe \in [findings : FindingLists, severity : {"pending"}]

CalculateSeverity ==
    /\ probe.severity = "pending"
    /\ probe' = [probe EXCEPT !.severity = OverallSeverity(probe.findings)]
    /\ UNCHANGED <<tree, rules, source, faults, owners, analyzedFiles,
                   fileRuleAnalyses, scanStatus, analysisResults, pc, call,
                   fsys, outcome, log, recordCalls, progressEvents,
                   errorCalls, workers, uploads>>

NextSeverity == CalculateSeverity

SpecSeverity == InitSeverity /\ [][NextSeverity]_vars

----------------------------------------------------------------------------
(* buildDirectoryTree on one directory: the children it returns for a      *)
(* listing.  A listing is the sequence fs.readdir delivers, in any order;  *)
(* failed holds the names whose recursive build throws.  Promise.all       *)
(* returns the children in the order of the listing, whichever recursion   *)
(* finishes first.                                                         *)

MaxEntries == 3

DirEntries ==
    { [name |-> "src", type |-> "directory"],
      [name |-> ".git", type |-> "directory"],
      [name |-> "app.js", type |-> "file"],
      [name |-> "u00e9.js", type |-> "file"],
      [name |-> "eu0301.js", type |-> "file"] }

Listings ==
    UNION { {l \in [1..n -> DirEntries] :
                \A i, j \in 1..n : l[i] = l[j] => i = j}
            : n \in 0..MaxEntries }

(* the comparator of the sort *)
CompareNodes(a, b) ==
    IF a.type = b.type THEN localeCompare(a.name, b.name)
    ELSE IF a.type = "directory" THEN -1 ELSE 1

(* entries.filter(...), and children.filter(child !== null) after the map *)
RECURSIVE KeptChildren(_, _)
KeptChildren(listing, failed) ==
    IF listing = <<>> THEN <<>>
    ELSE LET rest == KeptChildren(Tail(listing), failed)
         IN  IF Head(listing).name \in ExcludedDirs \cup failed
             THEN rest
             ELSE <<Head(listing)>> \o rest

(* node put into a sorted sequence behind every node that does not come   *)
(* after it                                                               *)
RECURSIVE InsertNode(_, _)
InsertNode(node, sorted) ==
    IF sorted = <<>> THEN <<node>>
    ELSE IF CompareNodes(node, Head(sorted)) < 0
         THEN <<node>> \o sorted
         ELSE <<Head(sorted)>> \o InsertNode(node, Tail(sorted))

(* Array.prototype.sort with the comparator: a stable sort *)
RECURSIVE SortNodes(_)
SortNodes(nodes) ==
    IF nodes = <<>> THEN <<>>
    ELSE InsertNode(nodes[Len(nodes)],
                    SortNodes(SubSeq(nodes, 1, Len(nodes) - 1)))

(* the children of the node buildDirectoryTree returns *)
BuildChildren(listing, failed) == SortNodes(KeptChildren(listing, failed))

InitTree ==
    /\ tree = TreeEmpty /\ rules = <<1>> /\ source = "dir"
    /\ faults = FALSE /\ owners = {"alice"}
    /\ Idle
    /\ Alone
    /\ probe \in [listing : Listings, failed : SUBSET {"src"},
                  children : {NULL}]

BuildDirectoryTreeCall ==
    /\ probe.children = NULL
    /\ probe' = [probe EXCEPT
                    !.children = BuildChildren(probe.listing, probe.failed)]
    /\ UNCHANGED <<tree, rules, source, faults, owners, analyzedFiles,
                   fileRuleAnalyses, scanStatus, analysisResults, pc, call,
                   fsys, outcome, log, recordCalls, progressEvents,
                   errorCalls, workers, uploads>>

NextTree == BuildDirectoryTreeCall

SpecTree == InitTree /\ [][NextTree]_vars

----------------------------------------------------------------------------
(* buildDirectoryTree on a directory of two levels.  A source node is an   *)
(* entry of the disk: its name, its type, whether fs.stat or fs.readdir    *)
(* throws for it (fails), and for a directory the listing of its entries.  *)

(* what a build gives when it throws, what the catch of a child gives, and   *)
(* the result of a build that has not run                                  *)
THROWN == [type |-> "thrown"]

NoChild == [type |-> "null"]

NotBuilt == [type |-> "pending"]

SourceFile(name) ==
    [name : {name}, type : {"file"}, fails : BOOLEAN, children : {<<>>}]

(* the sequences that list some of the nodes, one per name, in any order *)
ListingsOf(a, b) ==
    {<<>>} \cup {<<x>> : x \in a \cup b}
           \cup {<<x, y>> : x \in a, y \in b}
           \cup {<<y, x>> : x \in a, y \in b}

SourceSubdirs ==
    [name : {"src"}, type : {"directory"}, fails : BOOLEAN,
     children : ListingsOf(SourceFile("main.js"),
                           [name : {"a"}, type : {"directory"},
                            fails : BOOLEAN, children : {<<>>}])]

SourceRoots ==
    [name : {"root"}, type : {"directory"}, fails : BOOLEAN,
     children : ListingsOf(SourceFile("app.js"), SourceSubdirs)]

(* Variant of ChildOrNull without the try/catch around the recursive call. *)
ChildOrThrow(built) == built

(* try { return await buildDirectoryTree(child) } catch { return null } *)
ChildOrNull(built) == IF built.type = "thrown" THEN NoChild ELSE built

RECURSIVE BuildNode(_)
RECURSIVE BuiltChildren(_)

(* the array Promise.all resolves with: one element per listed entry that  *)
(* passes the filter, in the order of the listing                          *)
BuiltChildren(listing) ==
    IF listing = <<>> THEN <<>>
    ELSE IF Head(listing).name \in ExcludedDirs
         THEN BuiltChildren(Tail(listing))
         ELSE <<ChildOrNull(BuildNode(Head(listing)))>>
                  \o BuiltChildren(Tail(listing))

(* buildDirectoryTree(dir): the node it returns, or THROWN *)
BuildNode(node) ==
    IF node.fails THEN THROWN
    ELSE IF node.type = "file"
         THEN [name |-> node.name, type |-> "file"]
         ELSE LET children == BuiltChildren(node.children)
              IN  IF \E i \in DOMAIN children : children[i].type = "thrown"
                  THEN THROWN
                  ELSE [name |-> node.name, type |-> "directory",
                        children |->
                            SortNodes(SelectSeq(children,
                                                LAMBDA c : c.type # "null"))]

InitBuild ==
    /\ tree = TreeEmpty /\ rules = <<1>> /\ source = "dir"
    /\ faults = FALSE /\ owners = {"alice"}
    /\ Idle
    /\ Alone
    /\ probe \in [root : SourceRoots, built : {NotBuilt}]

BuildTreeCall ==
    /\ probe.built.type = "pending"
    /\ probe' = [probe EXCEPT !.built = BuildNode(probe.root)]
    /\ UNCHANGED <<tree, rules, source, faults, owners, analyzedFiles,
                   fileRuleAnalyses, scanStatus, analysisResults, pc, call,
                   fsys, outcome, log, recordCalls, progressEvents,
                   errorCalls, workers, uploads>>

NextBuild == BuildTreeCall

SpecBuild == InitBuild /\ [][NextBuild]_vars

----------------------------------------------------------------------------
(* The three walks over one snapshot: countAnalyzableFiles, analyzeFiles   *)
(* and buildDirectoryTree, each with the test its own code applies to the  *)
(* name of an entry.  A snapshot is here a set of files, each with the     *)
(* path of its directory; the directories are the prefixes of these paths. *)

DirNames == {"src", ".github", ".git", "node_modules"}

DirPaths == {<<>>} \cup {<<d>> : d \in DirNames}
                   \cup {<<d, e>> : d \in DirNames, e \in DirNames}

WalkFiles ==
    {Entry(d, "app.js", ".js", {"A"}) : d \in DirPaths}
    \cup {Entry(d, "README.md", ".md", {"A"}) : d \in DirPaths}

WalkSnapshots == {{}} \cup {{a, b} : a \in WalkFiles, b \in WalkFiles}

(* countAnalyzableFiles: entry.isDirectory() && !['node_modules', '.git']  *)
(* .includes(entry.name)                                                   *)
CountDescends(name) == name \notin {"node_modules", ".git"}

(* analyzeFiles: the same test on its own line *)
AnalyzeDescends(name) == name \notin {"node_modules", ".git"}

(* Variant of TreeKeeps with the filter of server/services/repoAnalyzer.ts: *)
(* !item.startsWith('.') && item !== 'node_modules'                        *)
TreeKeepsNoDotEntries(name) ==
    name \notin {"node_modules", ".git", ".github"}

(* buildDirectoryTree: entries.filter(item => !['node_modules', '.git']    *)
(* .includes(item))                                                        *)
TreeKeeps(name) == name \notin {"node_modules", ".git"}

(* the directories of a snapshot: every non-empty prefix of a file's path *)
DirectoriesOf(files) ==
    UNION { {SubSeq(f.dir, 1, k) : k \in 1..Len(f.dir)} : f \in files }

(* the directories a walk lists below the root, given its test: those all  *)
(* of whose segments pass                                                  *)
Entered(files, descended) ==
    {d \in DirectoriesOf(files) : \A k \in DOMAIN d : d[k] \in descended}

(* the files a walk reaches *)
Reached(files, descended) ==
    {f \in files : \A k \in DOMAIN f.dir : f.dir[k] \in descended}

InitWalk ==
    /\ tree = TreeEmpty /\ rules = <<1>> /\ source = "dir"
    /\ faults = FALSE /\ owners = {"alice"}
    /\ Idle
    /\ Alone
    /\ probe \in [files : WalkSnapshots, walked : {FALSE},
                  counted : {{}}, attempted : {{}}, inTree : {{}},
                  countDirs : {{}}, analyzeDirs : {{}}, treeDirs : {{}}]

(* the three walks of one analyzeRepository call over the snapshot *)
WalkSnapshot ==
    /\ ~probe.walked
    /\ probe' =
          [files |-> probe.files,
           walked |-> TRUE,
           counted |-> {f \in Reached(probe.files,
                               {n \in DirNames : CountDescends(n)}) :
                            shouldAnalyzeFile(f)},
           attempted |-> {f \in Reached(probe.files,
                               {n \in DirNames : AnalyzeDescends(n)}) :
                              shouldAnalyzeFile(f)},
           inTree |-> {f \in Reached(probe.files,
                               {n \in DirNames : TreeKeeps(n)}) :
                           TreeKeeps(f.name)},
           countDirs |-> Entered(probe.files,
                               {n \in DirNames : CountDescends(n)}),
           analyzeDirs |-> Entered(probe.files,
                               {n \in DirNames : AnalyzeDescends(n)}),
           treeDirs |-> Entered(probe.files,
                               {n \in DirNames : TreeKeeps(n)})]
    /\ UNCHANGED <<tree, rules, source, faults, owners, analyzedFiles,
                   fileRuleAnalyses, scanStatus, analysisResults, pc, call,
                   fsys, outcome, log, recordCalls, progressEvents,
                   errorCalls, workers, uploads>>

NextWalk == WalkSnapshot

SpecWalk == InitWalk /\ [][NextWalk]_vars

----------------------------------------------------------------------------
(* The repository name of a scan.  The inputs: the repoName of the         *)
(* caller's metadata (NULL without metadata, "" for an empty name), what   *)
(* reading .git/config gives, what reading package.json gives, and the     *)
(* base name of the path the snapshot is read from.                        *)

ABSENT == "absent"

MetadataNames == {NULL, "", "meta-name"}

(* .git/config: unreadable, readable without a url line the pattern        *)
(* matches, or with a url line whose last segment is "remote-name"         *)
GitConfigs == {ABSENT, "no url", "remote-name"}

(* package.json: unreadable or not JSON, without a name, or with one *)
Manifests == {ABSENT, "no name", "manifest-name"}

(* base names of sourcePath, of the snapshot directory and of its parent:  *)
(* a directory that is scanned in place, and an uploaded archive that is   *)
(* extracted                                                               *)
SnapshotDirs ==
    {[source |-> "repo-dir", name |-> "repo-dir", parent |-> "uploads"],
     [source |-> "upload-1.zip", name |-> "extracted", parent |-> "uploads"]}

(* analyzeRepository of part_004:                                          *)
(* metadata?.repoName || path.basename(sourcePath)                         *)
repositoryName(metadata, dir) ==
    IF metadata \notin {NULL, ""} THEN metadata ELSE dir.source

(* getRepositoryName(extractPath, metadata) of part_003 *)
getRepositoryName(metadata, gitConfig, manifest, dir) ==
    IF metadata \notin {NULL, ""} THEN metadata
    ELSE IF gitConfig \notin {ABSENT, "no url"} THEN gitConfig
    ELSE IF manifest \notin {ABSENT, "no name"} THEN manifest
    ELSE IF dir.name = "extracted" THEN dir.parent
    ELSE dir.name

InitName ==
    /\ tree = TreeEmpty /\ rules = <<1>> /\ source = "dir"
    /\ faults = FALSE /\ owners = {"alice"}
    /\ Idle
    /\ Alone
    /\ probe \in [metadata : MetadataNames, gitConfig : GitConfigs,
                  manifest : Manifests, dir : SnapshotDirs,
                  name : {NULL}, nameByLookup : {NULL}]

(* the name the scan is given, and the name getRepositoryName gives for    *)
(* the same snapshot                                                       *)
ChooseName ==
    /\ probe.name = NULL
    /\ probe' = [probe EXCEPT
                    !.name = repositoryName(probe.metadata, probe.dir),
                    !.nameByLookup =
                        getRepositoryName(probe.metadata, probe.gitConfig,
                                          probe.manifest, probe.dir)]
    /\ UNCHANGED <<tree, rules, source, faults, owners, analyzedFiles,
                   fileRuleAnalyses, scanStatus, analysisResults, pc, call,
                   fsys, outcome, log, recordCalls, progressEvents,
                   errorCalls, workers, uploads>>

NextName == ChooseName

SpecName == InitName /\ [][NextName]_vars

----------------------------------------------------------------------------
(* shouldAnalyzeFile on file names written out as sequences of characters, *)
(* in its two versions: part_004 lower-cases the name before the suffix    *)
(* test, server/services/repoAnalyzer.ts does not.                         *)

MaxNameLen == 4

NameChars == {".", "a", "A", "j", "J", "s", "S", "c", "C", "m", "d"}

FileNames == UNION {[1..n -> NameChars] : n \in 1..MaxNameLen}

(* the allow-list, character by character *)
ExtensionList ==
    { <<".", "j", "s">>, <<".", "j", "s", "x">>, <<".", "t", "s">>,
      <<".", "t", "s", "x">>, <<".", "p", "y">>, <<".", "r", "b">>,
      <<".", "p", "h", "p">>, <<".", "j", "a", "v", "a">>, <<".", "g", "o">>,
      <<".", "c", "s">>, <<".", "c", "p", "p">>, <<".", "c">> }

(* String.prototype.toLowerCase on the characters of the names *)
LowerChar(ch) ==
    CASE ch = "A" -> "a" [] ch = "J" -> "j" [] ch = "S" -> "s"
      [] ch = "C" -> "c" [] OTHER -> ch

toLowerCase(name) == [i \in DOMAIN name |-> LowerChar(name[i])]

(* String.prototype.endsWith *)
endsWith(name, ext) ==
    /\ Len(ext) <= Len(name)
    /\ SubSeq(name, Len(name) - Len(ext) + 1, Len(name)) = ext

(* part_004: extensions.some(ext => filename.toLowerCase().endsWith(ext)) *)
shouldAnalyzeFileName(filename) ==
    \E ext \in ExtensionList : endsWith(toLowerCase(filename), ext)

(* server/services/repoAnalyzer.ts:                                        *)
(* extensions.some(ext => filename.endsWith(ext))                          *)
shouldAnalyzeFileAsWritten(filename) ==
    \E ext \in ExtensionList : endsWith(filename, ext)

InitEligible ==
    /\ tree = TreeEmpty /\ rules = <<1>> /\ source = "dir"
    /\ faults = FALSE /\ owners = {"alice"}
    /\ Idle
    /\ Alone
    /\ probe \in [filename : FileNames, decided : {FALSE},
                  eligible : {FALSE}, eligibleAsWritten : {FALSE}]

ShouldAnalyzeFileCall ==
    /\ ~probe.decided
    /\ probe' = [filename |-> probe.filename,
                 decided |-> TRUE,
                 eligible |-> shouldAnalyzeFileName(probe.filename),
                 eligibleAsWritten |->
                     shouldAnalyzeFileAsWritten(probe.filename)]
    /\ UNCHANGED <<tree, rules, source, faults, owners, analyzedFiles,
                   fileRuleAnalyses, scanStatus, analysisResults, pc, call,
                   fsys, outcome, log, recordCalls, progressEvents,
                   errorCalls, workers, uploads>>

NextEligibleName == ShouldAnalyzeFileCall

SpecEligible == InitEligible /\ [][NextEligibleName]_vars

----------------------------------------------------------------------------
(* GET /api/scan/results/:scanId, answered while scans run.  The handler    *)
(* awaits two queries: the scan_status row of the id, then the newest       *)
(* analysis_results row of the id.  probe holds the request: idle, between  *)
(* the two queries, or answered.                                            *)

ScanIds == 1..(MaxScans + 1)

QueryIdle == [stage |-> "idle"]

NoReport == [type |-> "none"]

Answer(scanId, code, message, report) ==
    [stage |-> "answered", scanId |-> scanId, code |-> code,
     message |-> message, report |-> report]

(* Variant that refuses only the scans still in progress. *)
NotCompletedOnlyRunning(scan) == scan.status = "in_progress"

(* if (scan[0].status !== 'completed') *)
NotCompleted(scan) == scan.status # "completed"

(* select ... where scanId orderBy(desc(createdAt)).limit(1): rows are      *)
(* appended in the order of their creation                                  *)
LatestResult(scanId) ==
    LET rows == {j \in DOMAIN analysisResults :
                    analysisResults[j].scanId = scanId}
    IN  IF rows = {} THEN NoReport
        ELSE analysisResults[CHOOSE j \in rows : \A k \in rows : k <= j]

(* report: {repositoryName, findings, severity, timestamp}, tree: null *)
ReportOf(row) ==
    [repositoryName |-> row.repositoryName, findings |-> row.findings,
     severity |-> row.severity]

InitQuery ==
    /\ tree = TreeSingle /\ rules = <<1>> /\ source = "dir"
    /\ faults = FALSE /\ owners = {"alice"}
    /\ Idle
    /\ Alone
    /\ probe = QueryIdle

notTheRequest == <<tree, rules, source, faults, owners, workers, uploads,
                   analyzedFiles, fileRuleAnalyses, scanStatus,
                   analysisResults, pc, call, fsys, outcome, log,
                   recordCalls, progressEvents, errorCalls>>

(* the first query: the scan row *)
QueryScan ==
    /\ probe.stage = "idle"
    /\ \E scanId \in ScanIds :
          probe' = IF scanId \notin DOMAIN scanStatus
                   THEN Answer(scanId, 404, "Scan not found", NoReport)
                   ELSE IF NotCompleted(scanStatus[scanId])
                   THEN Answer(scanId, 400, "Scan is not completed yet",
                               NoReport)
                   ELSE [stage |-> "results", scanId |-> scanId]
    /\ UNCHANGED notTheRequest

(* the second query: the newest results row of the scan *)
QueryResults ==
    /\ probe.stage = "results"
    /\ probe' = IF LatestResult(probe.scanId) = NoReport
                THEN Answer(probe.scanId, 404, "Analysis results not found",
                            NoReport)
                ELSE Answer(probe.scanId, 200, "ok",
                            ReportOf(LatestResult(probe.scanId)))
    /\ UNCHANGED notTheRequest

(* the response is sent; the next request can come *)
QuerySent ==
    /\ probe.stage = "answered"
    /\ probe' = QueryIdle
    /\ UNCHANGED notTheRequest

NextQuery ==
    \/ Invoke
    \/ Extract
    \/ Count
    \/ InitialProgress
    \/ BuildTree
    \/ AnalyzeFile
    \/ EvaluateRule
    \/ PersistReport
    \/ Complete
    \/ Catch
    \/ Finally
    \/ QueryScan
    \/ QueryResults
    \/ QuerySent

SpecQuery == InitQuery /\ [][NextQuery]_vars

----------------------------------------------------------------------------
(* Properties *)

Terminal == {"completed", "failed"}

HasReport(scanId) ==
    \E j \in DOMAIN analysisResults : analysisResults[j].scanId = scanId

RuleIndex(r) == CHOOSE i \in DOMAIN rules : rules[i] = r

(* the recordAnalysis calls of the scan before the running one *)
PreviousScanRecords == {c \in recordCalls : c.scan = call.scanId - 1}

(* C1: when the previous scan of the repository recorded outcome F for     *)
(* file P with content hash H under rule r, a scan that finds P with the   *)
(* same content handles (P, r) as a cache hit returning exactly F, with no *)
(* classifier invocation.                                                  *)
C1_UnchangedFileServedFromCache ==
    \A e \in log : \A c \in PreviousScanRecords :
        (/\ c.file = e.file
         /\ c.rule = e.rule
         /\ c.hash = e.hash
         /\ c.repositoryName = call.repositoryName)
        => (e.kind = "hit" /\ e.findings = c.findings)

(* C2: when the previous scan recorded file P under hash A for every rule  *)
(* and P now has a hash B never recorded for P, no rule's lookup for P is  *)
(* a hit in this scan: every rule evaluated goes to the classifier.        *)
C2_ChangedFileMissesForEveryRule ==
    \A e \in log :
        (/\ \A i \in DOMAIN rules :
               \E c \in PreviousScanRecords :
                  c.file = e.file /\ c.rule = rules[i] /\ c.hash # e.hash
         /\ ~\E c \in recordCalls :
               c.file = e.file /\ c.hash = e.hash /\ c.scan < call.scanId)
        => e.kind # "hit"

(* C3: the findings a lookup hit returns for (filePath, hash, repository,  *)
(* rule) were passed to a recordAnalysis call with that same filePath,     *)
(* hash, repository and rule.                                              *)
C3_HitReturnsFindingsOfSameHash ==
    \A e \in log :
        e.kind = "hit" =>
            \E c \in recordCalls :
                /\ c.filePath = e.filePath
                /\ c.hash = e.hash
                /\ c.rule = e.rule
                /\ c.repositoryName = call.repositoryName
                /\ c.findings = e.findings

(* the last recordAnalysis call made for the file with full path f *)
LastRecordOf(f) ==
    CHOOSE c \in recordCalls :
        /\ c.file = f
        /\ \A d \in recordCalls : d.file = f => d.seq <= c.seq

(* C4: files are cached per full path: a hit for a file returns findings   *)
(* recorded for that very file, and the hash stored for a file is the one  *)
(* of the last analysis recorded for that file, also when another          *)
(* directory holds a file of the same base name.                           *)
C4_SameBaseNameCachedIndependently ==
    /\ \A e \in log :
          e.kind = "hit" =>
              \E c \in recordCalls :
                  c.file = e.file /\ c.rule = e.rule /\ c.findings = e.findings
    /\ \A f \in {c.file : c \in recordCalls} :
          \E i \in DOMAIN analyzedFiles :
              /\ analyzedFiles[i].filePath = LastRecordOf(f).filePath
              /\ analyzedFiles[i].repositoryName = LastRecordOf(f).repositoryName
              /\ analyzedFiles[i].fileHash = LastRecordOf(f).hash

(* C5: a scan row changes status only from in_progress to completed or     *)
(* failed, and a row that is completed or failed is never written again.   *)
C5_TerminalScansAreFinal ==
    [][\A i \in DOMAIN scanStatus :
          /\ scanStatus[i].status \in Terminal => scanStatus'[i] = scanStatus[i]
          /\ scanStatus'[i].status # scanStatus[i].status =>
                /\ scanStatus[i].status = "in_progress"
                /\ scanStatus'[i].status \in Terminal]_vars

(* a terminal scan exists while a later scan has written its progress *)
C5_Witness ==
    /\ pc = "rule"
    /\ call.scanId > 1
    /\ scanStatus[1].status \in Terminal
    /\ scanStatus[call.scanId].currentFile # NULL

(* C6: a completed scan has a report row with its id, progress 100 and     *)
(* completedAt set, and the running call has by then left the traversal    *)
(* and passed the insert of the report.                                    *)
C6_CompletedHasReport ==
    \A i \in DOMAIN scanStatus :
        scanStatus[i].status = "completed" =>
            /\ HasReport(i)
            /\ scanStatus[i].progress = 100
            /\ scanStatus[i].completedAt # NULL
            /\ (i = call.scanId =>
                   pc = "finally" /\ call.fileIdx > Len(tree))

(* a scan completes although one of its files could not be read *)
C6_Witness ==
    /\ pc = "finally"
    /\ scanStatus[call.scanId].status = "completed"
    /\ call.processed < call.totalFiles

(* C7: no report row exists for a failed scan. *)
C7_FailedHasNoReport ==
    \A i \in DOMAIN scanStatus :
        scanStatus[i].status = "failed" => ~HasReport(i)

(* C8: a call that ends with an error leaves its scan failed, with the     *)
(* error's message and completedAt set, and raises that same error; no     *)
(* scan is in progress once its call has settled.                          *)
C8_ErrorLeavesScanFailed ==
    /\ (pc = "finally" /\ outcome = "raised") =>
          /\ scanStatus[call.scanId].status = "failed"
          /\ scanStatus[call.scanId].error = call.error
          /\ scanStatus[call.scanId].completedAt # NULL
          /\ call.raised = call.error
    /\ pc = "idle" =>
          \A i \in DOMAIN scanStatus : scanStatus[i].status # "in_progress"

(* C9: once a call for an archive has settled, neither the extracted       *)
(* directory nor the uploaded archive exists.                              *)
C9_ArchiveCleanedOnEveryExit ==
    (pc = "idle" /\ outcome # "none" /\ source = "zip") =>
        (~fsys.archive /\ ~fsys.extracted)

(* C10: when the traversal has finished, every rule that follows a rule    *)
(* whose classifier call failed for a file has been evaluated for that     *)
(* file too.                                                               *)
C10_ErrorDoesNotSkipLaterRules ==
    pc = "report" =>
        \A e \in log :
            e.kind = "error" =>
                \A i \in DOMAIN rules :
                    i > RuleIndex(e.rule) =>
                        \E e2 \in log : e2.file = e.file /\ e2.rule = rules[i]

(* the analyzeCode calls that threw in the scan before the running one *)
PreviousScanErrors == {c \in errorCalls : c.scan = call.scanId - 1}

(* C11: a (file, rule) pair whose classifier call threw gets no            *)
(* recordAnalysis call and no finding in that scan, and when the next scan *)
(* finds the file with the same content it sends the pair to the           *)
(* classifier again instead of serving it from the cache.                  *)
C11_ClassifierErrorIsRetried ==
    /\ \A e \in log :
          e.kind = "error" =>
              /\ e.findings = <<>>
              /\ ~\E c \in recordCalls :
                     c.file = e.file /\ c.rule = e.rule /\ c.scan = call.scanId
    /\ \A e \in log : \A c \in PreviousScanErrors :
          (c.file = e.file /\ c.rule = e.rule /\ c.hash = e.hash)
          => e.kind \in {"classified", "error"}

(* a response that is not a conforming answer: none at all, no content,    *)
(* or a JSON object without the vulnerable flag or, when it reports a      *)
(* vulnerability, without description, recommendation or line number       *)
Abnormal(response) ==
    \/ response.kind \in {"transport error", "empty"}
    \/ /\ response.kind = "json"
       /\ \/ response.vulnerable = UNDEFINED
          \/ /\ response.vulnerable = "true"
             /\ \/ response.description = UNDEFINED
                \/ response.recommendation = UNDEFINED
                \/ response.lineNumber = <<>>

(* C12: when the completion request was sent and its outcome is abnormal,  *)
(* analyzeCode throws: it returns neither null nor an analysis, which are  *)
(* the two results analyzeFiles records in the cache.                      *)
C12_AbnormalResponsesAreRaised ==
    (/\ probe.result.kind # "pending"
     /\ containsRelevantPatterns(probe.content, probe.category)
     /\ Abnormal(probe.response))
    => probe.result.kind = "throw"

(* the events of store calls that threw inside analyzeFiles *)
StoreErrors == {"progressError", "lookupError", "recordError"}

(* C13: when a cache lookup, a cache record or a progress update threw in  *)
(* the traversal, the error has left the traversal for the catch block of  *)
(* analyzeRepository (no further file or rule is handled, no report is     *)
(* inserted) and the scan does not become completed.                       *)
C13_TraversalStoreFailureIsFatal ==
    (\E e \in log : e.kind \in StoreErrors) =>
        /\ pc \in {"catch", "finally"}
        /\ scanStatus[call.scanId].status # "completed"

(* errors of reading an entry below the root *)
NonRootReadErrors == {"subdirectory unreadable", "file unreadable"}

(* C14: an unreadable subdirectory or file never fails the scan: the error *)
(* that reaches the catch block of analyzeRepository, and the error a scan *)
(* row is failed with, is never one of reading an entry below the root.    *)
C14_NonRootReadErrorsAreSkipped ==
    /\ pc = "catch" => call.error \notin NonRootReadErrors
    /\ \A i \in DOMAIN scanStatus :
          scanStatus[i].error \notin NonRootReadErrors

(* C15: the progress events of the running scan carry the number of        *)
(* eligible files as total, their current values start at 0 and never      *)
(* decrease, and when the scan has completed the last current value is     *)
(* that total.                                                             *)
C15_ProgressRunsFromZeroToTotal ==
    /\ \A k \in DOMAIN progressEvents :
          progressEvents[k].total = countAnalyzableFiles(tree)
    /\ progressEvents # <<>> => progressEvents[1].current = 0
    /\ \A k \in 1..(Len(progressEvents) - 1) :
          progressEvents[k].current <= progressEvents[k + 1].current
    /\ (pc = "finally" /\ scanStatus[call.scanId].status = "completed") =>
          progressEvents[Len(progressEvents)].current =
              countAnalyzableFiles(tree)

(* C16: every progress event has 0 <= current <= total, every scan row has *)
(* a progress between 0 and 100, and the processed counter of the running  *)
(* call stays within the file count.                                       *)
C16_ProgressWithinBounds ==
    /\ \A k \in DOMAIN progressEvents :
          /\ 0 <= progressEvents[k].current
          /\ progressEvents[k].current <= progressEvents[k].total
    /\ \A i \in DOMAIN scanStatus :
          0 <= scanStatus[i].progress /\ scanStatus[i].progress <= 100
    /\ 0 <= call.processed /\ call.processed <= call.totalFiles

(* the first of two eligible files has been announced: half way *)
C16_Witness ==
    /\ pc = "rule"
    /\ progressEvents[Len(progressEvents)].current = 1
    /\ progressEvents[Len(progressEvents)].total = 2
    /\ scanStatus[call.scanId].progress = 50

(* the base name of a full path *)
BaseName(p) == p[Len(p)]

(* C17: while the rule loop of a file runs, the scan row names that file   *)
(* as currentFile and the last event broadcast names it with the current   *)
(* count; and every file for which a lookup or a classifier call has been  *)
(* made was named by an event broadcast before.                            *)
C17_ProgressAnnouncedBeforeEvaluation ==
    /\ pc = "rule" =>
          /\ scanStatus[call.scanId].currentFile = tree[call.fileIdx].name
          /\ progressEvents[Len(progressEvents)] =
                 ProgressUpdate(call.processed, call.totalFiles,
                                tree[call.fileIdx].name)
    /\ \A e \in log :
          e.kind # "progressError" =>
              \E k \in DOMAIN progressEvents :
                  progressEvents[k].file = BaseName(e.file)

(* the rule loop of a file is about to make its first lookup, in an        *)
(* environment where the progress update could have failed                 *)
C17_Witness ==
    /\ faults
    /\ pc = "rule"
    /\ call.ruleIdx = 1
    /\ log = {}
    /\ scanStatus[call.scanId].currentFile = "app.js"

(* C18: the file the traversal is handling is at the same position in the  *)
(* traversal as in the depth-first order of the tree of                    *)
(* buildDirectoryTree.                                                     *)
C18_TraversalFollowsTreeOrder ==
    pc \in {"file", "rule"} =>
        TraversalRank(tree, call.fileIdx) = TreeRank(tree, call.fileIdx)

NoFilesMessage == "No analyzable files found in the repository"

(* every entry of the snapshot is below an excluded directory *)
OnlyExcluded(t) == \A i \in DOMAIN t : Pruned(t[i])

(* C19: for a snapshot whose root holds only excluded directories the      *)
(* count is zero, no lookup, classifier call or record is ever made, no    *)
(* report is inserted, and the call that raised the no-files error leaves  *)
(* its scan failed with that message.                                      *)
C19_OnlyExcludedDirectoriesFails ==
    OnlyExcluded(tree) =>
        /\ countAnalyzableFiles(tree) = 0
        /\ log = {} /\ recordCalls = {} /\ errorCalls = {}
        /\ analysisResults = <<>>
        /\ (pc = "finally" /\ call.error = NoFilesMessage) =>
              /\ scanStatus[call.scanId].status = "failed"
              /\ scanStatus[call.scanId].error = NoFilesMessage

(* C20: a cache hit returns findings that a scan of the same logical       *)
(* repository (same owner, same name) recorded for that path and rule.     *)
C20_NoHitAcrossOwners ==
    \A e \in log :
        e.kind = "hit" =>
            \E c \in recordCalls :
                /\ c.owner = call.owner
                /\ c.repositoryName = call.repositoryName
                /\ c.filePath = e.filePath
                /\ c.rule = e.rule
                /\ c.findings = e.findings

(* C21: analyzed_files holds at most one row per (filePath,                *)
(* repositoryName).                                                        *)
C21_OneFileRowPerPathAndRepository ==
    \A i, j \in DOMAIN analyzedFiles :
        (/\ analyzedFiles[i].filePath = analyzedFiles[j].filePath
         /\ analyzedFiles[i].repositoryName = analyzedFiles[j].repositoryName)
        => i = j

(* C22: the messages a connected subscriber receives are non-decreasing in *)
(* current, also while two scans run.                                      *)
C22_SubscriberSeesMonotoneProgress ==
    \A k \in 1..(Len(progressEvents) - 1) :
        progressEvents[k].current <= progressEvents[k + 1].current


(* C23: while a call builds the tree of its snapshot or traverses it, the  *)
(* extraction directory exists and holds the files of its own archive      *)
(* only, and the call has read no file of another archive.                 *)
C23_SnapshotIsExclusive ==
    \A w \in Uploaders :
        /\ workers[w].pc \in {"tree", "analyze"} =>
               uploads.exists /\ uploads.extracted = {w}
        /\ workers[w].read \subseteq {w}


(* C24: every started scan eventually reaches completed or failed.         *)
C24_EveryScanEventuallyEnds ==
    \A i \in 1..MaxScans :
        (i \in DOMAIN scanStatus) ~>
            (i \in DOMAIN scanStatus /\ scanStatus[i].status \in Terminal)


C26_RecordOnlyAppendsRuleRows ==
    [][ probe'.calls = probe.calls + 1 =>
          /\ Len(fileRuleAnalyses') = Len(fileRuleAnalyses) + 1
          /\ \A j \in DOMAIN fileRuleAnalyses :
                fileRuleAnalyses'[j] = fileRuleAnalyses[j]
          /\ Len(analyzedFiles') \in
                {Len(analyzedFiles), Len(analyzedFiles) + 1}
          /\ \A i \in DOMAIN analyzedFiles :
                IF /\ analyzedFiles[i].filePath = probe'.last.filePath
                   /\ analyzedFiles[i].repositoryName
                          = probe'.last.repositoryName
                THEN analyzedFiles'[i] =
                         [analyzedFiles[i] EXCEPT
                             !.fileHash = probe'.last.fileHash]
                ELSE analyzedFiles'[i] = analyzedFiles[i]
      ]_vars

C26_Witness ==
    /\ probe.updated
    /\ Len(analyzedFiles) = 2
    /\ Len(fileRuleAnalyses) = 3
    /\ \E j \in 1..2 : fileRuleAnalyses[j].fileId = fileRuleAnalyses[3].fileId
                       /\ fileRuleAnalyses[j].ruleId
                              = fileRuleAnalyses[3].ruleId


(* C27: whatever line number the classifier reports for a content of n     *)
(* lines, the line number of the analysis analyzeCode returns lies between *)
(* 1 and n.                                                                *)
C27_LineNumberWithinFile ==
    (probe.result.kind = "analysis" /\ probe.response.lineNumber # <<>>) =>
        /\ probe.result.lineNumber # <<>>
        /\ probe.result.lineNumber[1] >= 1
        /\ probe.result.lineNumber[1] <= probe.content.lines


(* C28: for a category without a pattern list and a content that is not    *)
(* the empty string, analyzeCode sends the completion request: the         *)
(* pre-filter lets the content pass, and an answer that reports a          *)
(* vulnerability comes back as an analysis.                                *)
C28_NoPatternListNeverSkips ==
    (/\ probe.result.kind # "pending"
     /\ probe.category \notin PatternCategories
     /\ ~(probe.content.blank /\ probe.content.lines = 1))
    => /\ containsRelevantPatterns(probe.content, probe.category)
       /\ (probe.response.kind = "json" /\ probe.response.vulnerable = "true")
             => probe.result.kind = "analysis"


(* the place of a severity in the order low < medium < high *)
SeverityRank(s) == IF s = "high" THEN 3 ELSE IF s = "medium" THEN 2 ELSE 1

(* C29: the overall severity is low for the empty findings list, and       *)
(* otherwise the severity of a finding of the list that no finding of the  *)
(* list exceeds, whether the findings came from the classifier or the      *)
(* cache.                                                                  *)
C29_OverallSeverityIsTheHighest ==
    probe.severity # "pending" =>
        IF probe.findings = <<>>
        THEN probe.severity = "low"
        ELSE /\ \E i \in DOMAIN probe.findings :
                    probe.findings[i].severity = probe.severity
             /\ \A i \in DOMAIN probe.findings :
                    SeverityRank(probe.findings[i].severity)
                        <= SeverityRank(probe.severity)

C29_Witness ==
    /\ probe.severity = "high"
    /\ \E i, j \in DOMAIN probe.findings :
          /\ i < j
          /\ probe.findings[i].severity = "medium"
          /\ probe.findings[i].origin = "classifier"
          /\ probe.findings[j].severity = "high"
          /\ probe.findings[j].origin = "cache"


(* the listings that hold the same entries as l, in any order *)
SameEntries(l) ==
    {m \in Listings : Len(m) = Len(l) /\
                      {m[i] : i \in DOMAIN m} = {l[i] : i \in DOMAIN l}}

(* C30: the children buildDirectoryTree returns have every directory       *)
(* before every file and, within each kind, names that ascend; and they    *)
(* are the same children in the same order for every order in which the    *)
(* listing can deliver the same entries.                                   *)
C30_ChildOrderIsDetermined ==
    probe.children # NULL =>
        /\ \A i, j \in DOMAIN probe.children :
              i < j =>
                 /\ ~(probe.children[i].type = "file"
                      /\ probe.children[j].type = "directory")
                 /\ probe.children[i].type = probe.children[j].type =>
                       localeCompare(probe.children[i].name,
                                     probe.children[j].name) <= 0
        /\ \A m \in SameEntries(probe.listing) :
              BuildChildren(m, probe.failed) = probe.children


(* the names of the entries of a source directory that can be built *)
Buildable(node) ==
    {node.children[i].name : i \in {k \in DOMAIN node.children :
                                       ~node.children[k].fails}}

(* the names of the children of a built directory *)
ChildNames(built) == {built.children[i].name : i \in DOMAIN built.children}

(* C31: the build fails exactly when the root cannot be read; otherwise    *)
(* every directory of the tree holds exactly the entries of the source     *)
(* directory whose own stat and listing succeed, at the first level and at *)
(* the second: an entry that fails is left out alone.                      *)
C31_FailedChildAloneIsDropped ==
    probe.built.type # "pending" =>
        IF probe.root.fails THEN probe.built.type = "thrown"
        ELSE /\ probe.built.type = "directory"
             /\ ChildNames(probe.built) = Buildable(probe.root)
             /\ \A i \in DOMAIN probe.root.children :
                   LET s == probe.root.children[i]
                   IN  (~s.fails /\ s.type = "directory") =>
                          \E j \in DOMAIN probe.built.children :
                              /\ probe.built.children[j].name = s.name
                              /\ ChildNames(probe.built.children[j])
                                    = Buildable(s)

C31_Witness ==
    /\ probe.built.type = "directory"
    /\ \E j \in DOMAIN probe.built.children :
          /\ probe.built.children[j].name = "src"
          /\ ChildNames(probe.built.children[j]) = {"main.js"}
    /\ \E i \in DOMAIN probe.root.children :
          /\ probe.root.children[i].name = "src"
          /\ Len(probe.root.children[i].children) = 2
    /\ Len(probe.built.children) = 2


PriorityName ==
    IF probe.metadata \notin {NULL, ""} THEN probe.metadata
    ELSE IF probe.gitConfig = "remote-name" THEN "remote-name"
    ELSE IF probe.manifest = "manifest-name" THEN "manifest-name"
    ELSE probe.dir.name

(* C33: the repository name of a scan is the metadata name when there is   *)
(* one, else the name from the remote URL when one can be read, else the   *)
(* manifest's name when there is one, else the snapshot directory's name.  *)
C33_NameByStrictPriority ==
    probe.name # NULL => probe.name = PriorityName


(* two characters that are the same letter in either case *)
SameLetter(a, b) ==
    \/ a = b
    \/ {a, b} \in {{"a", "A"}, {"j", "J"}, {"s", "S"}, {"c", "C"}}

(* the name ends with an extension of the allow-list, letter case aside *)
HasListedSuffix(name) ==
    \E ext \in ExtensionList :
        /\ Len(ext) <= Len(name)
        /\ \A k \in DOMAIN ext :
              SameLetter(name[Len(name) - Len(ext) + k], ext[k])

(* C34: a file is eligible exactly when its name ends, letter case aside,  *)
(* with an extension of the allow-list; this holds of each version of      *)
(* shouldAnalyzeFile.                                                      *)
C34_EligibleBySuffixIgnoringCase ==
    probe.decided =>
        /\ probe.eligible = HasListedSuffix(probe.filename)
        /\ probe.eligibleAsWritten = HasListedSuffix(probe.filename)


(* C35: for a content of n lines and a reported line L with 1 <= L <= n,   *)
(* the snippet of the analysis is a run of consecutive lines of the        *)
(* content, at most WindowSize long, that starts at line max(1, L - 2) and *)
(* holds line L.                                                           *)
C35_SnippetWindow ==
    (/\ probe.result.kind = "analysis"
     /\ probe.response.lineNumber # <<>>
     /\ probe.response.lineNumber[1] >= 1
     /\ probe.response.lineNumber[1] <= probe.content.lines)
    => LET L       == probe.response.lineNumber[1]
           snippet == probe.result.codeSnippet
       IN  /\ Len(snippet) >= 1
           /\ Len(snippet) <= WindowSize
           /\ snippet[1] = Max(1, L - 2)
           /\ \A k \in 1..(Len(snippet) - 1) : snippet[k + 1] = snippet[k] + 1
           /\ snippet[Len(snippet)] <= probe.content.lines
           /\ \E k \in DOMAIN snippet : snippet[k] = L

C35_Witness ==
    /\ probe.result.kind = "analysis"
    /\ probe.content.lines = MaxLines
    /\ probe.response.lineNumber = <<MaxLines - 1>>
    /\ probe.result.codeSnippet =
          [i \in 1..4 |-> MaxLines - 4 + i]


(* the events of the running scan about the pair the rule loop is at *)
EventsOfPair(events) ==
    {e \in events : /\ e.file = FullPath(tree[call.fileIdx])
                    /\ e.rule = rules[call.ruleIdx]}

C37_ReportOnlyForCompletedScan ==
    [][(probe.stage # "answered" /\ probe'.stage = "answered") =>
          LET id == probe'.scanId
          IN  /\ probe'.report # NoReport =>
                    /\ probe'.code = 200
                    /\ id \in DOMAIN scanStatus
                    /\ scanStatus[id].status = "completed"
                    /\ \E j \in DOMAIN analysisResults :
                          /\ analysisResults[j].scanId = id
                          /\ probe'.report = ReportOf(analysisResults[j])
              /\ id \notin DOMAIN scanStatus =>
                    /\ probe'.code = 404
                    /\ probe'.message = "Scan not found"
                    /\ probe'.report = NoReport
              /\ (id \in DOMAIN scanStatus
                     /\ scanStatus[id].status \in {"in_progress", "failed"}) =>
                    /\ probe'.code >= 400
                    /\ probe'.report = NoReport]_vars

(* a failed scan whose report was persisted is refused, while the          *)
(* completed scan before it is answered with its report                    *)
C37_Witness ==
    /\ probe.stage = "answered"
    /\ probe.code = 400
    /\ scanStatus[probe.scanId].status = "failed"
    /\ HasReport(probe.scanId)
    /\ \E i \in DOMAIN scanStatus : scanStatus[i].status = "completed"


(* C38: in every state, every scan row has completedAt set exactly when    *)
(* its status is completed or failed, and has an error message only when   *)
(* its status is failed.                                                   *)
C38_CompletedAtIffTerminal ==
    \A i \in DOMAIN scanStatus :
        /\ scanStatus[i].completedAt # NULL <=> scanStatus[i].status \in Terminal
        /\ scanStatus[i].error # NULL => scanStatus[i].status = "failed"

(* a completed row, and a failed row carrying its error and its end time *)
C38_Witness ==
    /\ \E i \in DOMAIN scanStatus :
          /\ scanStatus[i].status = "completed"
          /\ scanStatus[i].completedAt # NULL
          /\ scanStatus[i].error = NULL
    /\ \E i \in DOMAIN scanStatus :
          /\ scanStatus[i].status = "failed"
          /\ scanStatus[i].completedAt # NULL
          /\ scanStatus[i].error # NULL


(* C39: a scan row reads progress 100 only when its status is completed;   *)
(* while the running scan is in progress and rule evaluations of a file    *)
(* remain to be done, its row reads a progress below 100.                  *)
C39_FullProgressOnlyWhenCompleted ==
    /\ \A i \in DOMAIN scanStatus :
          scanStatus[i].progress = 100 => scanStatus[i].status = "completed"
    /\ (pc = "rule" /\ scanStatus[call.scanId].status = "in_progress") =>
          scanStatus[call.scanId].progress < 100

====
